---------------------------- MODULE Spec2Model ----------------------------
(***************************************************************************)
(* A model of the statement extraction engine of                           *)
(* financial-statement-analyzer: the normalizer (clean_amount,             *)
(* clean_date), the line grammars of the format-specific extractors, the   *)
(* generic text extractor, the OCR extractor and the two orchestrators     *)
(* (SmartDocumentProcessor, DocumentProcessor).                            *)
(*                                                                         *)
(* Text is modelled as it is in the program: a string is a sequence of     *)
(* one-character strings, a page is a sequence of lines, and every regular *)
(* expression of the source is written as a pattern value and matched by   *)
(* a backtracking matcher with the priorities of Python's re module.       *)
(* Amounts are integers in cents.                                          *)
(***************************************************************************)
EXTENDS Integers, Sequences, FiniteSets, TLC

VARIABLES
    call,            \* the operation under way and, for the normalizer, its argument
    ret,             \* normalizer: the value returned, or NoValue before the call
    ret2,            \* normalizer: clean_date applied to its own result
    pc,              \* the position of the operation under way
    document,        \* the PDF handed to an extractor or an orchestrator
    now,             \* datetime.now(), as the year and the month
    self_poppler_path,   \* DocumentProcessor.poppler_path: a rasterizer was found
    self_ocr_reader,     \* DocumentProcessor.ocr_reader: the OCR engine started
    extracted,       \* the records as the extractor returned them
    result           \* the result of process_document

vars == <<call, ret, ret2, pc, document, now, self_poppler_path, self_ocr_reader,
          extracted, result>>

NoValue == "none"

(* The functions of re and of str, the methods of the source and its         *)
(* pattern tables are applied by name:                                       *)
(* Invoke("f", <<a, b>>) is f(a, b), with the arguments evaluated before the *)
(* body, as Python evaluates them.                                           *)
RECURSIVE Invoke(_, _)

--------------------------------------------------------------------------
(* Characters and strings (Python str operations)                          *)

Digits == {"0","1","2","3","4","5","6","7","8","9"}
NonZero == Digits \ {"0"}
UpperSeq == <<"A","B","C","D","E","F","G","H","I","J","K","L","M","N","O","P","Q","R","S","T","U","V","W","X","Y","Z">>
LowerSeq == <<"a","b","c","d","e","f","g","h","i","j","k","l","m","n","o","p","q","r","s","t","u","v","w","x","y","z">>
Uppers == {UpperSeq[i] : i \in 1..26}
Lowers == {LowerSeq[i] : i \in 1..26}
Alpha == Uppers \cup Lowers
WordChars == Alpha \cup Digits \cup {"_"}
Space == {" "}

DigitVal == ("0" :> 0) @@ ("1" :> 1) @@ ("2" :> 2) @@ ("3" :> 3) @@ ("4" :> 4) @@
            ("5" :> 5) @@ ("6" :> 6) @@ ("7" :> 7) @@ ("8" :> 8) @@ ("9" :> 9)
DigitChar == <<"0","1","2","3","4","5","6","7","8","9">>

ToLower == [c \in Uppers |-> LowerSeq[CHOOSE i \in 1..26 : UpperSeq[i] = c]]
ToUpper == [c \in Lowers |-> UpperSeq[CHOOSE i \in 1..26 : LowerSeq[i] = c]]

\* the list [f(1), ..., f(n)] of a function on 1..n, computed once
List(f) == <<>> \o f

\* min(a, b), and the least element of a non-empty set of numbers
Least(a, b) == IF a < b THEN a ELSE b
Lowest(S) == CHOOSE n \in S : \A m \in S : n <= m

\* the statements of the source run in order: e, once v has been computed
After(v, e) == IF v = v THEN e ELSE v

\* str.lower()
Lower(s) == List([i \in 1..Len(s) |-> IF s[i] \in Uppers THEN ToLower[s[i]] ELSE s[i]])

\* str.strip()
Strip(s) ==
    LET idx == {i \in 1..Len(s) : s[i] \notin Space}
    IN  IF idx = {} THEN <<>>
        ELSE SubSeq(s, CHOOSE i \in idx : \A j \in idx : i <= j,
                       CHOOSE i \in idx : \A j \in idx : i >= j)

\* sub in s
Contains(s, sub) ==
    \E i \in 1..(Len(s) - Len(sub) + 1) : SubSeq(s, i, i + Len(sub) - 1) = sub

\* s.startswith(p)
StartsWith(s, p) == Len(p) <= Len(s) /\ SubSeq(s, 1, Len(p)) = p

\* s[:n]
Take(s, n) == SubSeq(s, 1, IF n < Len(s) THEN n ELSE Len(s))

\* any(k in s for k in keywords)
ContainsAny(s, keywords) == \E k \in keywords : Contains(s, k)

\* int(s) of a digit string
RECURSIVE ToNat(_)
ToNat(s) == IF s = <<>> THEN 0
            ELSE 10 * ToNat(SubSeq(s, 1, Len(s) - 1)) + DigitVal[s[Len(s)]]

\* s.zfill(2)
ZFill2(s) == IF Len(s) < 2 THEN <<"0">> \o s ELSE s

\* '%02d' % n
Fmt2(n) == <<DigitChar[((n \div 10) % 10) + 1], DigitChar[(n % 10) + 1]>>

\* str(n) of a natural number
RECURSIVE Str(_)
Str(n) == IF n < 10 THEN <<DigitChar[n + 1]>>
          ELSE Str(n \div 10) \o <<DigitChar[(n % 10) + 1]>>

\* s.split(): the maximal runs of non-blank characters
RECURSIVE SplitWs(_)
SplitWs(s) ==
    LET starts == {i \in 1..Len(s) : s[i] \notin Space}
    IN  IF starts = {} THEN <<>>
        ELSE LET a == CHOOSE i \in starts : \A j \in starts : i <= j
                 stops == {i \in a..Len(s) : s[i] \in Space}
                 b == IF stops = {} THEN Len(s) + 1
                      ELSE CHOOSE i \in stops : \A j \in stops : i <= j
             IN  <<SubSeq(s, a, b - 1)>> \o SplitWs(SubSeq(s, b, Len(s)))

\* sep.join(words)
RECURSIVE JoinWith(_, _)
JoinWith(words, sep) ==
    IF words = <<>> THEN <<>>
    ELSE IF Len(words) = 1 THEN words[1]
    ELSE words[1] \o sep \o JoinWith(Tail(words), sep)

\* the concatenation of a list of lists (list.extend / append in a loop)
RECURSIVE Concat(_)
Concat(ss) == IF Len(ss) = 0 THEN <<>> ELSE Head(ss) \o Concat(Tail(ss))

\* any(c.isdigit() for c in s)
HasDigit(s) == \E i \in 1..Len(s) : s[i] \in Digits

\* abs(n)
Abs(n) == IF n < 0 THEN 0 - n ELSE n

--------------------------------------------------------------------------
(* Regular expressions (Python re): pattern values and a backtracking      *)
(* matcher.  Ends(r, s, i) lists, in the order a backtracking matcher      *)
(* tries them, the positions where a match of r that starts at i can end.  *)

Unbounded == 999

Ch(set) == [k |-> "ch", cs |-> set]
AnyCh == [k |-> "any"]
Cat(rs) == [k |-> "cat", rs |-> rs]
Alt(rs) == [k |-> "alt", rs |-> rs]
Rep(r, lo, hi) == [k |-> "rep", r |-> r, lo |-> lo, hi |-> hi, lazy |-> FALSE]
LazyRep(r, lo, hi) == [k |-> "rep", r |-> r, lo |-> lo, hi |-> hi, lazy |-> TRUE]
Opt(r) == Rep(r, 0, 1)
Plus(r) == Rep(r, 1, Unbounded)
Star(r) == Rep(r, 0, Unbounded)
Bol == [k |-> "bol"]
Eol == [k |-> "eol"]
WordB == [k |-> "wb"]
Lit(s) == [k |-> "lit", t |-> s, ci |-> FALSE]
\* a literal under re.IGNORECASE
LitCI(s) == [k |-> "lit", t |-> s, ci |-> TRUE]

\* the characters a and b are equal, up to case when ci
SameChar(a, b, ci) ==
    \/ a = b
    \/ ci /\ a \in Uppers /\ ToLower[a] = b
    \/ ci /\ b \in Uppers /\ ToLower[b] = a

IsWordAt(s, i) == i >= 1 /\ i <= Len(s) /\ s[i] \in WordChars

\* a repetition of one character class: the run of matching characters from i
\* on decides the ends, longest first (shortest first when lazy)
RunLength(r, s, i) ==
    Lowest({n \in 0..(Len(s) + 1 - i) :
              i + n > Len(s) \/ (r.r.k = "ch" /\ s[i + n] \notin r.r.cs)})

RunEnds(r, i, most) ==
    IF most < r.lo THEN <<>>
    ELSE IF r.lazy THEN List([n \in 1..(most - r.lo + 1) |-> i + r.lo + n - 1])
    ELSE List([n \in 1..(most - r.lo + 1) |-> i + most - n + 1])

EndsRun(r, s, i) == RunEnds(r, i, Least(RunLength(r, s, i), r.hi))

RECURSIVE Ends(_, _, _), EndsCat(_, _, _, _), BindCat(_, _, _, _, _),
          EndsAlt(_, _, _, _), EndsRep(_, _, _, _), BindRep(_, _, _, _, _, _)

Ends(r, s, i) ==
    CASE r.k = "ch"  -> IF i <= Len(s) /\ s[i] \in r.cs THEN <<i + 1>> ELSE <<>>
      [] r.k = "any" -> IF i <= Len(s) THEN <<i + 1>> ELSE <<>>
      [] r.k = "bol" -> IF i = 1 THEN <<i>> ELSE <<>>
      [] r.k = "eol" -> IF i = Len(s) + 1 THEN <<i>> ELSE <<>>
      [] r.k = "wb"  -> IF IsWordAt(s, i - 1) # IsWordAt(s, i) THEN <<i>> ELSE <<>>
      [] r.k = "lit" -> IF /\ i + Len(r.t) - 1 <= Len(s)
                           /\ \A j \in 1..Len(r.t) : SameChar(s[i + j - 1], r.t[j], r.ci)
                        THEN <<i + Len(r.t)>> ELSE <<>>
      [] r.k = "cat" -> EndsCat(r.rs, 1, s, i)
      [] r.k = "alt" -> EndsAlt(r.rs, 1, s, i)
      [] r.k = "rep" -> IF r.r.k \in {"ch", "any"} THEN EndsRun(r, s, i)
                        ELSE EndsRep(r, 0, s, i)

EndsCat(rs, k, s, i) ==
    IF k > Len(rs) THEN <<i>> ELSE BindCat(Ends(rs[k], s, i), 1, rs, k + 1, s)

BindCat(js, p, rs, k, s) ==
    IF p > Len(js) THEN <<>>
    ELSE EndsCat(rs, k, s, js[p]) \o BindCat(js, p + 1, rs, k, s)

EndsAlt(rs, k, s, i) ==
    IF k > Len(rs) THEN <<>> ELSE Ends(rs[k], s, i) \o EndsAlt(rs, k + 1, s, i)

EndsRep(r, n, s, i) ==
    LET more == IF n < r.hi THEN BindRep(Ends(r.r, s, i), 1, r, n + 1, s, i) ELSE <<>>
        stop == IF n >= r.lo THEN <<i>> ELSE <<>>
    IN  IF r.lazy THEN stop \o more ELSE more \o stop

BindRep(js, p, r, n, s, i) ==
    IF p > Len(js) THEN <<>>
    ELSE (IF js[p] > i THEN EndsRep(r, n, s, js[p]) ELSE <<>>)
         \o BindRep(js, p + 1, r, n, s, i)

(* A pattern with groups is a sequence of parts.  MatchAt(parts, s, i) is    *)
(* the match the matcher finds first: <<i, e1, ..., en>>, part k spanning    *)
(* s[e(k-1) .. ek - 1]; <<>> when there is none.                             *)
RECURSIVE PathFrom(_, _, _, _)

\* js: the ends of part k from i, in the matcher's order; the first of them
\* from which the remaining parts match is taken
PathVia(parts, k, s, i, js, ok) ==
    IF ok = {} THEN <<>> ELSE <<i>> \o PathFrom(parts, k + 1, s, js[Lowest(ok)])

PathOver(parts, k, s, i, js) ==
    PathVia(parts, k, s, i, js,
            {p \in 1..Len(js) : PathFrom(parts, k + 1, s, js[p]) # <<>>})

PathFrom(parts, k, s, i) ==
    IF k > Len(parts) THEN <<i>>
    ELSE PathOver(parts, k, s, i, Ends(parts[k], s, i))

\* re.match(pattern, s)
MatchAt(parts, s, i) == PathFrom(parts, 1, s, i)
Match(parts, s) == Invoke("MatchAt", <<parts, s, 1>>)

\* re.search(pattern, s) from position i on: the match at the leftmost start
SearchAmong(parts, s, starts) ==
    IF starts = {} THEN <<>> ELSE Invoke("MatchAt", <<parts, s, Lowest(starts)>>)

SearchFrom(parts, s, i) ==
    SearchAmong(parts, s, {j \in i..(Len(s) + 1) : Invoke("MatchAt", <<parts, s, j>>) # <<>>})

Search(parts, s) == Invoke("SearchFrom", <<parts, s, 1>>)

\* match.group(k), match.start(), match.end()
Group(m, k, s) == SubSeq(s, m[k], m[k + 1] - 1)
MStart(m) == m[1]
MEnd(m) == m[Len(m)]
Group0(m, s) == SubSeq(s, MStart(m), MEnd(m) - 1)

\* re.findall(pattern, s) for a pattern without groups: the matched texts
RECURSIVE FindAllFrom(_, _, _)
FindAllFrom(parts, s, i) ==
    LET m == Invoke("SearchFrom", <<parts, s, i>>)
    IN  IF m = <<>> THEN <<>>
        ELSE <<Group0(m, s)>> \o
             FindAllFrom(parts, s, IF MEnd(m) > MStart(m) THEN MEnd(m) ELSE MEnd(m) + 1)

FindAll(parts, s) == FindAllFrom(parts, s, 1)

\* re.sub(pattern, repl, s).  The replacement is a template: a list of items,
\* each the text of group g (none when g = 0) followed by the literal lit.
Expand(m, s, repl) ==
    Concat([j \in 1..Len(repl) |->
              (IF repl[j].g > 0 THEN Group(m, repl[j].g, s) ELSE <<>>) \o repl[j].lit])

RECURSIVE SubFrom(_, _, _, _)
SubFrom(parts, s, repl, i) ==
    LET m == Invoke("SearchFrom", <<parts, s, i>>)
    IN  IF m = <<>> THEN SubSeq(s, i, Len(s))
        ELSE SubSeq(s, i, MStart(m) - 1) \o Expand(m, s, repl) \o
             (IF MEnd(m) > MStart(m) THEN SubFrom(parts, s, repl, MEnd(m))
              ELSE IF MEnd(m) <= Len(s)
                   THEN <<s[MEnd(m)]>> \o SubFrom(parts, s, repl, MEnd(m) + 1)
                   ELSE <<>>)

Sub(parts, repl, s) == SubFrom(parts, s, repl, 1)

\* re.sub(pattern, '', s)
SubEmpty(parts, s) == Invoke("Sub", <<parts, <<>>, s>>)

\* s.replace(old, '') for a non-empty old
RemoveAll(s, old) == IF old = <<>> THEN s ELSE SubEmpty(<<Lit(old)>>, s)

\* recurring pieces of the source's patterns
D == Ch(Digits)
Ws0 == Star(Ch(Space))                                   \* \s*
Ws1 == Plus(Ch(Space))                                   \* \s+
A3 == Rep(Ch(Alpha), 3, 3)                               \* [A-Za-z]{3}
Decimal2 == Cat(<<Plus(Ch(Digits \cup {","})), Ch({"."}), Rep(D, 2, 2)>>)          \* [\d,]+\.\d{2}
Decimal2Opt == Cat(<<Plus(Ch(Digits \cup {","})), Opt(Ch({"."})), Rep(D, 2, 2)>>)  \* [\d,]+\.?\d{2}
MonthCap == << <<"J","a","n">>, <<"F","e","b">>, <<"M","a","r">>, <<"A","p","r">>, <<"M","a","y">>, <<"J","u","n">>,
               <<"J","u","l">>, <<"A","u","g">>, <<"S","e","p">>, <<"O","c","t">>, <<"N","o","v">>, <<"D","e","c">> >>
ReMonth == Alt([i \in 1..12 |-> Lit(MonthCap[i])])       \* (Jan|Feb|...|Dec)
ReMonthCI == Alt([i \in 1..12 |-> LitCI(MonthCap[i])])   \* the same under re.IGNORECASE

--------------------------------------------------------------------------
(* Normalizer: BankProcessor.clean_amount                                  *)

\* float(t) for a string of digits, '.', and '-': the value in cents.
\* (Every amount grammar of the source admits at most two fraction digits.)
ParseFloat(t) ==
    LET neg  == t # <<>> /\ t[1] = "-"
        body == IF neg THEN Tail(t) ELSE t
        dots == {i \in 1..Len(body) : body[i] = "."}
        ok   == /\ \A i \in 1..Len(body) : body[i] \in Digits \cup {"."}
                /\ Cardinality(dots) <= 1
                /\ \E i \in 1..Len(body) : body[i] \in Digits
        dot  == IF dots = {} THEN Len(body) + 1 ELSE CHOOSE i \in dots : TRUE
        ip   == SubSeq(body, 1, dot - 1)
        fp   == Take(SubSeq(body, dot + 1, Len(body)) \o <<"0","0">>, 2)
        mag  == 100 * ToNat(ip) + ToNat(fp)
    IN  IF ok THEN [ok |-> TRUE, cents |-> IF neg THEN 0 - mag ELSE mag]
        ELSE [ok |-> FALSE, cents |-> 0]

\* the digits of the string read as an amount, whatever its sign notation
AmountMagnitude(amount_str) ==
    Invoke("ParseFloat", <<SelectSeq(amount_str, LAMBDA c : c \in Digits \cup {"."})>>).cents

AmountKeep == Digits \cup {".", ",", "(", ")", "-"}

clean_amount(amount_str) ==
    IF amount_str = <<>> THEN 0
    ELSE
    LET is_negative == Contains(amount_str, <<"(">>) \/ StartsWith(amount_str, <<"-">>)
        cleaned == SelectSeq(amount_str, LAMBDA c : c \in AmountKeep)
        final_cleaned == SelectSeq(cleaned, LAMBDA c : c \notin {",", "(", ")"})
        f == Invoke("ParseFloat", <<final_cleaned>>)
    IN  IF ~f.ok THEN 0
        ELSE IF StartsWith(final_cleaned, <<"-">>) THEN f.cents
        ELSE IF is_negative THEN 0 - f.cents ELSE f.cents

--------------------------------------------------------------------------
(* Normalizer: BankProcessor.clean_date                                    *)

MonthAbbr == << <<"j","a","n">>, <<"f","e","b">>, <<"m","a","r">>, <<"a","p","r">>, <<"m","a","y">>, <<"j","u","n">>,
                <<"j","u","l">>, <<"a","u","g">>, <<"s","e","p">>, <<"o","c","t">>, <<"n","o","v">>, <<"d","e","c">> >>

\* month_map.get(m): the month number of a lower-case abbreviation, 0 if absent
MonthNum(m) == IF \E i \in 1..12 : MonthAbbr[i] = m
               THEN CHOOSE i \in 1..12 : MonthAbbr[i] = m ELSE 0

\* The directives of datetime.strptime as the regular expressions it compiles
ReB == Alt([i \in 1..12 |-> LitCI(MonthAbbr[i])])
ReD == Alt(<< Cat(<<Ch({"3"}), Ch({"0","1"})>>), Cat(<<Ch({"1","2"}), Ch(Digits)>>),
              Cat(<<Ch({"0"}), Ch(NonZero)>>), Ch(NonZero),
              Cat(<<Ch({" "}), Ch(NonZero)>>) >>)
ReM == Alt(<< Cat(<<Ch({"1"}), Ch({"0","1","2"})>>), Cat(<<Ch({"0"}), Ch(NonZero)>>),
              Ch(NonZero) >>)
ReY == Rep(Ch(Digits), 4, 4)
ReWs == Plus(Ch(Space))

\* the formats list of clean_date, in order; b, d, m, Y are group positions
DateFormats == <<
    [parts |-> <<ReB, ReWs, ReD, ReWs, ReY>>,           b |-> 1, d |-> 3, m |-> 0, Y |-> 5],
    [parts |-> <<ReB, Ch({"."}), ReD, ReWs, ReY>>,      b |-> 1, d |-> 3, m |-> 0, Y |-> 5],
    [parts |-> <<ReB, Ch({"-"}), ReD, ReWs, ReY>>,      b |-> 1, d |-> 3, m |-> 0, Y |-> 5],
    [parts |-> <<ReB, ReWs, ReD>>,                      b |-> 1, d |-> 3, m |-> 0, Y |-> 0],
    [parts |-> <<ReB, Ch({"."}), ReD>>,                 b |-> 1, d |-> 3, m |-> 0, Y |-> 0],
    [parts |-> <<ReM, Ch({"/"}), ReD, Ch({"/"}), ReY>>, b |-> 0, d |-> 3, m |-> 1, Y |-> 5],
    [parts |-> <<ReD, Ch({"/"}), ReM, Ch({"/"}), ReY>>, b |-> 0, d |-> 1, m |-> 3, Y |-> 5],
    [parts |-> <<ReM, Ch({"/"}), ReD>>,                 b |-> 0, d |-> 3, m |-> 1, Y |-> 0] >>

IsLeap(y) == (y % 4) = 0 /\ ((y % 100) # 0 \/ (y % 400) = 0)
DaysIn(m, y) == IF m = 2 THEN (IF IsLeap(y) THEN 29 ELSE 28)
                ELSE IF m \in {4, 6, 9, 11} THEN 30 ELSE 31

\* datetime.strptime(s, fmt): the month and day, or ok = FALSE for ValueError.
\* Without %Y the year is 1900, so Feb 29 is rejected.
Strptime(s, fmt) ==
    LET p == Invoke("Match", <<fmt.parts, s>>)
    IN  IF p = <<>> \/ MEnd(p) # Len(s) + 1 THEN [ok |-> FALSE, month |-> 0, day |-> 0]
        ELSE LET month == IF fmt.b # 0 THEN MonthNum(Invoke("Lower", <<Group(p, fmt.b, s)>>))
                          ELSE ToNat(Group(p, fmt.m, s))
                 day   == ToNat(Invoke("Strip", <<Group(p, fmt.d, s)>>))
                 year  == IF fmt.Y # 0 THEN ToNat(Group(p, fmt.Y, s)) ELSE 1900
             IN  [ok |-> year >= 1 /\ day <= DaysIn(month, year),
                  month |-> month, day |-> day]

\* month_day_pattern = r'([A-Za-z]{3})\.?(\d{1,2})'
MonthDayPattern == << Rep(Ch(Alpha), 3, 3), Opt(Ch({"."})), Rep(Ch(Digits), 1, 2) >>

RECURSIVE TryDateFormats(_, _)
TryDateFormats(s, k) ==
    IF k > Len(Invoke("DateFormats", <<>>)) THEN <<>>
    ELSE LET t == Invoke("Strptime", <<s, Invoke("DateFormats", <<>>)[k]>>)
         IN  IF t.ok THEN Fmt2(t.month) \o <<"-">> \o Fmt2(t.day)
             ELSE TryDateFormats(s, k + 1)

clean_date(date_str) ==
    IF date_str = <<>> THEN <<"0","1","-","0","1">>
    ELSE
    LET parsed == TryDateFormats(Invoke("Strip", <<date_str>>), 1)
        low    == Invoke("Lower", <<date_str>>)
        m      == Invoke("Search", <<MonthDayPattern, low>>)
    IN  IF parsed # <<>> THEN parsed
        ELSE IF m # <<>> /\ MonthNum(Group(m, 1, low)) # 0
             THEN Fmt2(MonthNum(Group(m, 1, low))) \o <<"-">> \o ZFill2(Group(m, 3, low))
        ELSE Take(Invoke("Strip", <<date_str>>), 5)

--------------------------------------------------------------------------
(* A document on disk: pdf.openable is whether pdfplumber.open succeeds,   *)
(* pdf.pages[p] is page p's extract_text() as its list of lines (the empty *)
(* list for a page without text), pdf.scan[p] is what the OCR reader       *)
(* returns for the image of page p.  Confidences are in percent.           *)

\* a transaction dictionary with key k set to v
SetKey(tx, k, v) == [f \in DOMAIN tx \cup {k} |-> IF f = k THEN v ELSE tx[f]]

--------------------------------------------------------------------------
(* BMOProcessor (credit card): Month.Day Month.Day DESCRIPTION AMOUNT      *)

MonDotDay == Cat(<<A3, Ch({"."}), Rep(D, 1, 2)>>)        \* [A-Za-z]{3}\.\d{1,2}

_is_bmo_transaction(line) == Invoke("Match", <<<<Bol, MonDotDay, Ws1, MonDotDay>>, line>>) # <<>>

BMOSkipKeywords == {<<"t","o","t","a","l">>, <<"i","n","t","e","r","e","s","t">>, <<"f","e","e">>, <<"b","a","l","a","n","c","e">>, <<"p","a","y","m","e","n","t">>, <<"c","r","e","d","i","t"," ","l","i","m","i","t">>}

_parse_bmo_transaction(line, page_num) ==
    LET match == Invoke("Match", <<<<Bol, MonDotDay, Ws1, MonDotDay, Ws1, Star(AnyCh)>>, line>>)
    IN  IF match = <<>> THEN <<>>
        ELSE
        LET trans_date == Invoke("clean_date", <<Group(match, 2, line)>>)
            post_date == Invoke("clean_date", <<Group(match, 4, line)>>)
            remaining_text == Invoke("Strip", <<Group(match, 6, line)>>)
            amount_match == Invoke("Search", <<<<Decimal2, Ws0, Eol>>, remaining_text>>)
        IN  IF amount_match = <<>> THEN <<>>
            ELSE
            LET amount == Invoke("clean_amount", <<Group(amount_match, 1, remaining_text)>>)
                before == Invoke("Strip", <<SubSeq(remaining_text, 1, MStart(amount_match) - 1)>>)
                ref_match == Invoke("Search", <<<<Rep(D, 10, Unbounded), Ws0, Decimal2, Ws0, Eol>>,
                                    remaining_text>>)
                reference == IF ref_match # <<>> THEN Group(ref_match, 1, remaining_text)
                             ELSE <<>>
                description == IF reference # <<>> THEN Invoke("Strip", <<RemoveAll(before, reference)>>)
                               ELSE before
            IN  IF ContainsAny(Invoke("Lower", <<description>>), BMOSkipKeywords) THEN <<>>
                ELSE << [date |-> trans_date, posting_date |-> post_date,
                         description |-> description, reference |-> reference,
                         amount |-> amount, page |-> page_num, bank |-> <<"B","M","O">>,
                         confidence |-> 90] >>

BMO_extract_transactions(pdf) ==
    IF ~pdf.openable THEN <<>>
    ELSE Concat([p \in 1..Len(pdf.pages) |->
           Concat([i \in 1..Len(pdf.pages[p]) |->
             LET line == Invoke("Strip", <<pdf.pages[p][i]>>)
             IN  IF Invoke("_is_bmo_transaction", <<line>>) THEN Invoke("_parse_bmo_transaction", <<line, p>>)
                 ELSE <<>>])])

--------------------------------------------------------------------------
(* EQBankProcessor (deposit account): Mon DD DESCRIPTION -$AMOUNT          *)

MonthDay == Cat(<<A3, Ws1, Rep(D, 1, 2)>>)               \* [A-Za-z]{3}\s+\d{1,2}
EQAmount == Cat(<<Opt(Ch({"-"})), Ch({"$"}), Decimal2Opt>>)   \* -?\$[\d,]+\.?\d{2}

_is_eq_transaction(line) ==
    Invoke("Search", <<<<Bol, MonthDay>>, line>>) # <<>> /\ Invoke("Search", <<<<EQAmount>>, line>>) # <<>>

\* today is datetime.now(): the year and month of the clock
_parse_eq_transaction(line, page_num, today) ==
    LET match == Invoke("Match", <<<<Bol, MonthDay, Ws1, LazyRep(AnyCh, 0, Unbounded), Ws1,
                         EQAmount, Eol>>, line>>)
    IN  IF match = <<>> THEN <<>>
        ELSE
        LET statement_year == IF today.month <= 3 THEN today.year - 1 ELSE today.year
            date_str == Group(match, 2, line) \o <<" ">> \o Str(statement_year)
            description == Invoke("Strip", <<Group(match, 4, line)>>)
        IN  IF Contains(Invoke("Lower", <<description>>), <<"w","i","t","h","d","r","a","w","a","l","s">>)
               \/ Contains(Invoke("Lower", <<description>>), <<"d","e","p","o","s","i","t","s">>) THEN <<>>
            ELSE << [date |-> Invoke("clean_date", <<date_str>>), description |-> description,
                     amount |-> Invoke("clean_amount", <<Group(match, 6, line)>>),
                     page |-> page_num, bank |-> <<"E","Q"," ","B","a","n","k">>, confidence |-> 95] >>

EQ_extract_transactions(pdf, today) ==
    IF ~pdf.openable THEN <<>>
    ELSE Concat([p \in 1..Len(pdf.pages) |->
           Concat([i \in 1..Len(pdf.pages[p]) |->
             LET line == Invoke("Strip", <<pdf.pages[p][i]>>)
             IN  IF Invoke("_is_eq_transaction", <<line>>) THEN Invoke("_parse_eq_transaction", <<line, p, today>>)
                 ELSE <<>>])])

--------------------------------------------------------------------------
(* TDProcessor (deposit account): MM/DD DESCRIPTION AMOUNT under the       *)
(* "Credits" / "Debits" section headers                                    *)

_is_td_transaction(line) == Invoke("Match", <<<<Bol, Rep(D, 2, 2), Ch({"/"}), Rep(D, 2, 2)>>, line>>) # <<>>

_parse_td_transaction(line, page_num, section) ==
    LET match == Invoke("Match", <<<<Bol, Cat(<<Rep(D, 2, 2), Ch({"/"}), Rep(D, 2, 2)>>), Ws1,
                         LazyRep(AnyCh, 0, Unbounded), Ws1, Decimal2Opt, Eol>>, line>>)
    IN  IF match = <<>> THEN <<>>
        ELSE
        LET amount == Invoke("clean_amount", <<Group(match, 6, line)>>)
            debits == section = <<"d","e","b","i","t","s">>
        IN  << [date |-> Invoke("clean_date", <<Group(match, 2, line)>>),
                description |-> Invoke("Strip", <<Group(match, 4, line)>>),
                amount |-> amount, page |-> page_num, bank |-> <<"T","D"," ","B","a","n","k">>,
                confidence |-> 90,
                transaction_type |-> IF debits THEN <<"d","e","b","i","t">> ELSE <<"c","r","e","d","i","t">>,
                is_spending |-> debits,
                abs_amount |-> Abs(amount),
                processing_method |-> <<"t","d","_","b","a","n","k","_","p","r","o","c","e","s","s","o","r">>,
                confidence_level |-> <<"h","i","g","h">>] >>

\* the loop over the lines of one page; current_section is <<>> for None
RECURSIVE TDLines(_, _, _, _)
TDLines(lines, i, current_section, page_num) ==
    IF i > Len(lines) THEN <<>>
    ELSE LET line == Invoke("Strip", <<lines[i]>>)
         IN  IF line = <<"C","r","e","d","i","t","s">> THEN TDLines(lines, i + 1, <<"c","r","e","d","i","t","s">>, page_num)
             ELSE IF line = <<"D","e","b","i","t","s">> THEN TDLines(lines, i + 1, <<"d","e","b","i","t","s">>, page_num)
             ELSE IF Contains(line, <<"D","A","I","L","Y"," ","A","C","C","O","U","N","T"," ","A","C","T","I","V","I","T","Y">>)
                  THEN TDLines(lines, i + 1, <<"c","r","e","d","i","t","s">>, page_num)
             ELSE (IF current_section # <<>> /\ Invoke("_is_td_transaction", <<line>>)
                   THEN Invoke("_parse_td_transaction", <<line, page_num, current_section>>)
                   ELSE <<>>)
                  \o TDLines(lines, i + 1, current_section, page_num)

\* every page read as if it began under a "Credits" header
TDFromCredits(pdf) ==
    IF ~pdf.openable THEN <<>>
    ELSE Concat([p \in 1..Len(pdf.pages) |-> TDLines(pdf.pages[p], 1, <<"c","r","e","d","i","t","s">>, p)])

TD_extract_transactions(pdf) ==
    IF ~pdf.openable THEN <<>>
    ELSE Concat([p \in 1..Len(pdf.pages) |-> TDLines(pdf.pages[p], 1, <<>>, p)])

--------------------------------------------------------------------------
(* TangerineProcessor (savings account): DD Mon YYYY DESCRIPTION AMOUNT    *)
(* BALANCE, on one line or spread over the following lines                 *)

TangerineDate == <<Bol, Rep(D, 2, 2), Ch(Space), A3, Ch(Space), Rep(D, 4, 4)>>

_is_tangerine_transaction(line) == Invoke("Match", <<TangerineDate, line>>) # <<>>

\* re.match(r'^[\d,]+\.?\d{2}$', p)
IsAmountPart(p) == Invoke("Match", <<<<Bol, Decimal2Opt, Eol>>, p>>) # <<>>
NotAmountPart(p) == ~IsAmountPart(p)

_parse_tangerine_date(date_str) ==
    LET parts == Invoke("SplitWs", <<date_str>>)
    IN  IF Len(parts) >= 3 /\ MonthNum(Invoke("Lower", <<parts[2]>>)) # 0
        THEN Fmt2(MonthNum(Invoke("Lower", <<parts[2]>>))) \o <<"-">> \o ZFill2(parts[1])
        ELSE <<"U","n","k","n","o","w","n">>

TangerineCreditKeywords ==
    {<<"i","n","t","e","r","e","s","t"," ","p","a","i","d">>, <<"d","e","p","o","s","i","t">>, <<"t","r","a","n","s","f","e","r"," ","i","n">>, <<"e","-","t","r","a","n","s","f","e","r"," ","f","r","o","m">>, <<"i","n","t","e","r","a","c"," ","e","-","t","r","a","n","s","f","e","r"," ","f","r","o","m">>}
TangerineDebitKeywords ==
    {<<"w","i","t","h","d","r","a","w","a","l">>, <<"t","r","a","n","s","f","e","r"," ","t","o">>, <<"i","n","t","e","r","n","e","t"," ","w","i","t","h","d","r","a","w","a","l">>, <<"f","e","e">>, <<"c","h","a","r","g","e">>}
TangerineBalanceEntries == {<<"o","p","e","n","i","n","g"," ","b","a","l","a","n","c","e">>, <<"c","l","o","s","i","n","g"," ","b","a","l","a","n","c","e">>}

\* the record both Tangerine parsers build once date, description, amount and
\* balance are known: the balance-entry skip and the keyword classification
TangerineRecord(date, description, amount, balance, page_num) ==
    IF ContainsAny(Invoke("Lower", <<description>>), TangerineBalanceEntries) /\ amount = 0 THEN <<>>
    ELSE
    LET credit == IF ContainsAny(Invoke("Lower", <<description>>), TangerineCreditKeywords) THEN TRUE
                  ELSE IF ContainsAny(Invoke("Lower", <<description>>), TangerineDebitKeywords) THEN FALSE
                  ELSE amount > 0
    IN  << [date |-> date, description |-> description, amount |-> amount,
            balance |-> balance, page |-> page_num, bank |-> <<"T","a","n","g","e","r","i","n","e">>,
            confidence |-> 85,
            transaction_type |-> IF credit THEN <<"c","r","e","d","i","t">> ELSE <<"d","e","b","i","t">>,
            is_spending |-> ~credit,
            abs_amount |-> Abs(amount),
            processing_method |-> <<"t","a","n","g","e","r","i","n","e","_","p","r","o","c","e","s","s","o","r">>,
            confidence_level |-> <<"m","e","d","i","u","m">>] >>

_is_complete_tangerine_transaction(line) ==
    /\ Len(Invoke("SplitWs", <<line>>)) >= 6
    /\ Invoke("Match", <<TangerineDate, line>>) # <<>>
    /\ Len(SelectSeq(Invoke("SplitWs", <<line>>), IsAmountPart)) >= 2

_parse_tangerine_transaction(line, page_num) ==
    LET parts == Invoke("SplitWs", <<line>>)
    IN  IF Len(parts) < 4 THEN <<>>
        ELSE
        LET date == Invoke("_parse_tangerine_date", <<parts[1] \o <<" ">> \o parts[2] \o <<" ">> \o parts[3]>>)
            rest == SubSeq(parts, 4, Len(parts))
            amounts == SelectSeq(rest, IsAmountPart)
            description == JoinWith(SelectSeq(rest, NotAmountPart), <<" ">>)
        IN  IF Len(amounts) < 2 THEN <<>>
            ELSE Invoke("TangerineRecord", <<date, description, Invoke("clean_amount", <<amounts[1]>>),
                                 Invoke("clean_amount", <<amounts[2]>>), page_num>>)

\* the look-ahead loop of _parse_tangerine_multiline_transaction; st holds its
\* locals (description <<>> for None or '', found for "amount is not None")
RECURSIVE TangerineLookAhead(_, _, _)
TangerineLookAhead(lines, idx, st) ==
    IF ~(idx <= Len(lines) /\ st.lines_consumed < 5) THEN st
    ELSE
    LET next_line == Invoke("Strip", <<lines[idx]>>)
        amounts_in_line == Invoke("FindAll", <<<<Decimal2>>, next_line>>)
    IN  IF next_line = <<>>
        THEN TangerineLookAhead(lines, idx + 1,
                 [st EXCEPT !.lines_consumed = st.lines_consumed + 1])
        ELSE IF Invoke("Match", <<TangerineDate, next_line>>) # <<>> THEN st
        ELSE IF Len(amounts_in_line) >= 2 /\ ~st.found
        THEN [st EXCEPT !.found = TRUE,
                        !.amount = Invoke("clean_amount", <<amounts_in_line[1]>>),
                        !.balance = Invoke("clean_amount", <<amounts_in_line[2]>>),
                        !.lines_consumed = st.lines_consumed + 1]
        ELSE TangerineLookAhead(lines, idx + 1,
                 [st EXCEPT !.description = IF st.description = <<>> /\ ~HasDigit(next_line)
                                            THEN next_line ELSE st.description,
                            !.lines_consumed = st.lines_consumed + 1])

\* the line at start_idx read as a transaction of one line, nothing after it
TangerineLineAlone(lines, start_idx, page_num) ==
    [tx |-> Invoke("_parse_tangerine_transaction", <<Invoke("Strip", <<lines[start_idx]>>), page_num>>),
     lines_consumed |-> 1]

\* a parser that reports no line consumed when it finds no record
TangerineStay(lines, start_idx, page_num) == [tx |-> <<>>, lines_consumed |-> 0]

\* the date line at start_idx emitted as a record of its own, without amounts
TangerineFragment(lines, start_idx, page_num) ==
    [tx |-> Invoke("TangerineRecord", <<Invoke("_parse_tangerine_date", <<Invoke("Strip", <<lines[start_idx]>>)>>), <<"U","n","k","n","o","w","n">>,
                            0, 0, page_num>>),
     lines_consumed |-> 1]

\* returns the pair (transaction, lines_consumed); start_idx counts from 1
_parse_tangerine_multiline_transaction(lines, start_idx, page_num) ==
    LET current_line == Invoke("Strip", <<lines[start_idx]>>)
    IN  IF Invoke("_is_complete_tangerine_transaction", <<current_line>>)
        THEN [tx |-> Invoke("_parse_tangerine_transaction", <<current_line, page_num>>), lines_consumed |-> 1]
        ELSE
        LET parts == Invoke("SplitWs", <<current_line>>)
            dated == Invoke("Match", <<TangerineDate, current_line>>) # <<>> /\ Len(parts) >= 3
            date_str == IF dated THEN parts[1] \o <<" ">> \o parts[2] \o <<" ">> \o parts[3] ELSE <<>>
            remaining_parts == IF dated THEN SubSeq(parts, 4, Len(parts)) ELSE <<>>
            amounts_in_line == SelectSeq(remaining_parts, IsAmountPart)
            both == Len(amounts_in_line) >= 2
            first == [description |-> IF both
                                      THEN JoinWith(SelectSeq(remaining_parts, NotAmountPart), <<" ">>)
                                      ELSE JoinWith(remaining_parts, <<" ">>),
                      found |-> both,
                      amount |-> IF both THEN Invoke("clean_amount", <<amounts_in_line[1]>>) ELSE 0,
                      balance |-> IF both THEN Invoke("clean_amount", <<amounts_in_line[2]>>) ELSE 0,
                      lines_consumed |-> 1]
            ahead == TangerineLookAhead(lines, start_idx + 1, first)
            prev_line == IF start_idx > 1 THEN Invoke("Strip", <<lines[start_idx - 1]>>) ELSE <<>>
            description == IF ahead.description = <<>> /\ prev_line # <<>>
                              /\ Invoke("Match", <<TangerineDate, prev_line>>) = <<>>
                           THEN prev_line ELSE ahead.description
        IN  IF date_str # <<>> /\ description # <<>> /\ ahead.found
            THEN LET rec == Invoke("TangerineRecord", <<Invoke("_parse_tangerine_date", <<date_str>>), description,
                                            ahead.amount, ahead.balance, page_num>>)
                 IN  [tx |-> rec, lines_consumed |-> ahead.lines_consumed]
            ELSE [tx |-> <<>>, lines_consumed |-> 1]

\* the while loop over the lines of one page
RECURSIVE TangerineLines(_, _, _, _)
TangerineLines(lines, i, in_transaction_section, page_num) ==
    IF i > Len(lines) THEN <<>>
    ELSE
    LET line == Invoke("Strip", <<lines[i]>>)
    IN  IF (Contains(line, <<"T","r","a","n","s","a","c","t","i","o","n"," ","D","a","t","e">>) /\ Contains(line, <<"T","r","a","n","s","a","c","t","i","o","n"," ","D","e","s","c","r","i","p","t","i","o","n">>))
           \/ (Contains(line, <<"T","r","a","n","s","a","c","t","i","o","n"," ","D","a","t","e">>) /\ Contains(line, <<"A","m","o","u","n","t">>))
        THEN TangerineLines(lines, i + 1, TRUE, page_num)
        ELSE IF Contains(line, <<"C","u","r","r","e","n","t"," ","I","n","t","e","r","e","s","t"," ","R","a","t","e">>) \/ Contains(line, <<"T","h","e"," ","D","e","t","a","i","l","s"," ","-">>)
        THEN TangerineLines(lines, i + 1, FALSE, page_num)
        ELSE IF in_transaction_section /\ Invoke("_is_tangerine_transaction", <<line>>)
        THEN LET r == Invoke("_parse_tangerine_multiline_transaction", <<lines, i, page_num>>)
             IN  r.tx \o TangerineLines(lines, i + r.lines_consumed,
                                       in_transaction_section, page_num)
        ELSE TangerineLines(lines, i + 1, in_transaction_section, page_num)

Tangerine_extract_transactions(pdf) ==
    IF ~pdf.openable THEN <<>>
    ELSE Concat([p \in 1..Len(pdf.pages) |-> TangerineLines(pdf.pages[p], 1, FALSE, p)])

--------------------------------------------------------------------------
(* ScotiaBankProcessor (deposit account): a MonDD date header carried      *)
(* forward to the keyword lines that follow it                             *)

_parse_scotia_bank_date(date_str) ==
    LET low == Invoke("Lower", <<date_str>>)
        match == Invoke("Match", <<<<A3, Rep(D, 1, 2)>>, low>>)
    IN  IF match # <<>> /\ MonthNum(Group(match, 1, low)) # 0
        THEN Fmt2(MonthNum(Group(match, 1, low))) \o <<"-">> \o ZFill2(Group(match, 2, low))
        ELSE <<"U","n","k","n","o","w","n">>

ScotiaSkipPhrases ==
    {<<"o","p","e","n","i","n","g"," ","b","a","l","a","n","c","e">>, <<"c","l","o","s","i","n","g"," ","b","a","l","a","n","c","e">>, <<"m","i","n","u","s"," ","t","o","t","a","l"," ","w","i","t","h","d","r","a","w","a","l","s">>, <<"p","l","u","s"," ","t","o","t","a","l"," ","d","e","p","o","s","i","t","s">>,
     <<"p","l","u","s","t","o","t","a","l"," ","d","e","p","o","s","i","t","s">>, <<"m","i","n","u","s","t","o","t","a","l"," ","w","i","t","h","d","r","a","w","a","l","s">>, <<"b","a","l","a","n","c","e"," ","b","r","o","u","g","h","t"," ","f","o","r","w","a","r","d">>,
     <<"y","o","u","r"," ","b","a","s","i","c"," ","b","a","n","k","i","n","g"," ","a","c","c","o","u","n","t"," ","s","u","m","m","a","r","y">>}
ScotiaBankPatterns ==
    {<<"m","b","-","b","i","l","l","p","a","y","m","e","n","t">>, <<"m","b","-","t","r","a","n","s","f","e","r">>, <<"w","i","t","h","d","r","a","w","a","l">>, <<"d","e","p","o","s","i","t">>, <<"f","e","e","s","/","d","u","e","s">>, <<"s","e","r","v","i","c","e","c","h","a","r","g","e">>,
     <<"p","o","i","n","t"," ","o","f"," ","s","a","l","e","p","u","r","c","h","a","s","e">>, <<"d","e","b","i","t"," ","m","e","m","o">>, <<"m","u","t","u","a","l"," ","f","u","n","d","s">>, <<"e","r","r","o","r"," ","c","o","r","r","e","c","t","i","o","n">>, <<"e","i"," ","c","a","n","a","d","a">>}
ScotiaCreditKeywords == {<<"d","e","p","o","s","i","t">>, <<"t","r","a","n","s","f","e","r"," ","f","r","o","m">>, <<"i","n","t","e","r","e","s","t">>, <<"c","r","e","d","i","t">>, <<"r","e","f","u","n","d">>}

_is_scotia_bank_transaction(line) ==
    /\ ~ContainsAny(Invoke("Lower", <<line>>), ScotiaSkipPhrases)
    /\ ContainsAny(Invoke("Lower", <<line>>), ScotiaBankPatterns)
    /\ Invoke("Search", <<<<Opt(Ch({"$"})), Decimal2>>, line>>) # <<>>
    /\ Len(line) > 10

\* current_date is <<>> for None
_parse_scotia_bank_transaction(line, current_date, page_num) ==
    LET amount_match == Invoke("Search", <<<<Opt(Ch({"$"})), Decimal2>>, line>>)
    IN  IF amount_match = <<>> THEN <<>>
        ELSE
        LET amount == Invoke("clean_amount", <<Group(amount_match, 2, line)>>)
            before == Invoke("Strip", <<SubSeq(line, 1, MStart(amount_match) - 1)>>)
            date == IF current_date # <<>> THEN current_date ELSE <<"U","n","k","n","o","w","n">>
            head == Invoke("Match", <<<<Bol, ReMonth, Rep(D, 1, 2), Ws0>>, before>>)
            description == Invoke("Strip", <<IF head = <<>> THEN before
                                 ELSE SubSeq(before, MEnd(head), Len(before))>>)
            credit == ContainsAny(Invoke("Lower", <<description>>), ScotiaCreditKeywords)
        IN  IF Len(description) < 3 THEN <<>>
            ELSE << [date |-> date, description |-> description, amount |-> amount,
                     page |-> page_num, bank |-> <<"S","c","o","t","i","a","b","a","n","k">>, confidence |-> 85,
                     transaction_type |-> IF credit THEN <<"c","r","e","d","i","t">> ELSE <<"d","e","b","i","t">>,
                     is_spending |-> ~credit,
                     abs_amount |-> Abs(amount),
                     processing_method |-> <<"s","c","o","t","i","a","b","a","n","k","_","p","r","o","c","e","s","s","o","r">>,
                     confidence_level |-> <<"m","e","d","i","u","m">>] >>

\* the loop over the lines of one page
RECURSIVE ScotiaBankLines(_, _, _, _)
ScotiaBankLines(lines, i, current_date, page_num) ==
    IF i > Len(lines) THEN <<>>
    ELSE
    LET line == Invoke("Strip", <<lines[i]>>)
        date_match == Invoke("Search", <<<<ReMonth, Rep(D, 1, 2)>>, line>>)
        date == IF date_match = <<>> THEN current_date
                ELSE Invoke("_parse_scotia_bank_date", <<Group(date_match, 1, line)
                                             \o ZFill2(Group(date_match, 2, line))>>)
    IN  (IF Invoke("_is_scotia_bank_transaction", <<line>>)
         THEN Invoke("_parse_scotia_bank_transaction", <<line, date, page_num>>) ELSE <<>>)
        \o ScotiaBankLines(lines, i + 1, date, page_num)

ScotiaBank_extract_transactions(pdf) ==
    IF ~pdf.openable THEN <<>>
    ELSE Concat([p \in 1..Len(pdf.pages) |-> ScotiaBankLines(pdf.pages[p], 1, <<>>, p)])


--------------------------------------------------------------------------
(* RBCBankProcessor and CIBCProcessor (deposit accounts): a table whose    *)
(* lines carry the date of the last line that had one                      *)

\* re.sub(r'^\W+|\W+$', '', s)
TrimNonWord(s) ==
    LET idx == {i \in 1..Len(s) : s[i] \in WordChars}
    IN  IF idx = {} THEN <<>>
        ELSE SubSeq(s, CHOOSE i \in idx : \A j \in idx : i <= j,
                       CHOOSE i \in idx : \A j \in idx : i >= j)

\* s[:s.find(sub)] for a sub that occurs in s
Before(s, sub) ==
    SubSeq(s, 1, Lowest({i \in 1..(Len(s) - Len(sub) + 1) :
                           SubSeq(s, i, i + Len(sub) - 1) = sub}) - 1)

\* ' '.join(s.split())
Respaced(s) == JoinWith(Invoke("SplitWs", <<s>>), <<" ">>)

\* phrase in text, for a phrase of one line
InPage(page, phrase) == \E i \in 1..Len(page) : Contains(page[i], phrase)

TableSkipWords == {<<"d","a","t","e">>, <<"d","e","s","c","r","i","p","t","i","o","n">>, <<"w","i","t","h","d","r","a","w","a","l","s">>, <<"d","e","p","o","s","i","t","s">>, <<"b","a","l","a","n","c","e">>}

\* a record when the text before the first amount is kept as the description
TableRecord(date, description, amount, page_num, bank, method, credit) ==
    [date |-> date, description |-> description, amount |-> amount, page |-> page_num,
     bank |-> bank, confidence |-> 85,
     transaction_type |-> IF credit THEN <<"c","r","e","d","i","t">> ELSE <<"d","e","b","i","t">>,
     is_spending |-> ~credit, abs_amount |-> Abs(amount),
     processing_method |-> method, confidence_level |-> <<"m","e","d","i","u","m">>]

\* the date of a first line that is not a date
FirstOfYear(date_str) == <<"0","1","-","0","1">>

_parse_rbc_date(date_str) ==
    LET low == Invoke("Lower", <<date_str>>)
        match == Invoke("Match", <<<<Rep(D, 1, 2), Ws1, A3>>, low>>)
    IN  IF match # <<>> /\ MonthNum(Group(match, 3, low)) # 0
        THEN Fmt2(MonthNum(Group(match, 3, low))) \o <<"-">> \o ZFill2(Group(match, 1, low))
        ELSE <<"U","n","k","n","o","w","n">>

RBCSkipPatterns ==
    {<<"d","a","t","e">>, <<"d","e","s","c","r","i","p","t","i","o","n">>, <<"w","i","t","h","d","r","a","w","a","l","s">>, <<"d","e","p","o","s","i","t","s">>, <<"b","a","l","a","n","c","e">>, <<"d","e","t","a","i","l","s"," ","o","f"," ","y","o","u","r"," ","a","c","c","o","u","n","t">>,
     <<"c","o","n","t","i","n","u","e","d">>, <<"o","p","e","n","i","n","g"," ","b","a","l","a","n","c","e">>, <<"c","l","o","s","i","n","g"," ","b","a","l","a","n","c","e">>, <<"t","o","t","a","l"," ","d","e","p","o","s","i","t","s">>,
     <<"t","o","t","a","l"," ","w","i","t","h","d","r","a","w","a","l","s">>, <<"s","u","m","m","a","r","y">>, <<"f","r","o","m",".","*","t","o",".","*">>, <<"r","b","c">>, <<"f","e","e"," ","e","l","e","c","t","r","o","n","i","c">>,
     <<"m","u","l","t","i","p","r","o","d","u","c","t"," ","r","e","b","a","t","e">>, <<"m","o","n","t","h","l","y"," ","f","e","e">>}
RBCCreditPatterns == {<<"e","-","t","r","a","n","s","f","e","r">>, <<"a","u","t","o","d","e","p","o","s","i","t">>, <<"d","e","p","o","s","i","t">>, <<"r","e","b","a","t","e">>, <<"r","e","f","u","n","d">>}

_parse_rbc_transaction_line(date, line, page_num) ==
    LET line_lower == Invoke("Lower", <<line>>)
        amounts == Invoke("FindAll", <<<<Decimal2>>, line>>)
    IN  IF Len(Invoke("Strip", <<line>>)) < 5 \/ ContainsAny(line_lower, RBCSkipPatterns) \/ amounts = <<>>
        THEN <<>>
        ELSE
        LET amount == Invoke("clean_amount", <<amounts[1]>>)
            description == Respaced(TrimNonWord(Invoke("Strip", <<Before(line, amounts[1])>>)))
        IN  IF amount <= 0 \/ Len(description) < 3 \/ date = <<>> \/ date = <<"U","n","k","n","o","w","n">>
            THEN <<>>
            ELSE << TableRecord(date, description, amount, page_num, <<"R","B","C"," ","B","a","n","k">>,
                                <<"r","b","c","_","b","a","n","k","_","p","r","o","c","e","s","s","o","r">>,
                                ContainsAny(line_lower, RBCCreditPatterns)) >>

\* the loop over the lines of one page; current_date is <<>> for None
RECURSIVE RBCLines(_, _, _, _)
RBCLines(lines, i, current_date, page_num) ==
    IF i > Len(lines) THEN <<>>
    ELSE
    LET line == Invoke("Strip", <<lines[i]>>)
        date_match == Invoke("Search", <<<<Rep(D, 1, 2), Ws1, A3>>, line>>)
        found_date == /\ date_match # <<>>
                      /\ MonthNum(Invoke("Lower", <<Group(date_match, 3, line)>>)) # 0
    IN  IF line = <<>> \/ ContainsAny(Invoke("Lower", <<line>>), TableSkipWords)
        THEN RBCLines(lines, i + 1, current_date, page_num)
        ELSE IF found_date
        THEN LET date == Invoke("_parse_rbc_date", <<Group0(date_match, line)>>)
                 clean_line == Invoke("Strip", <<RemoveAll(line, Group0(date_match, line))>>)
             IN  (IF clean_line # <<>>
                  THEN Invoke("_parse_rbc_transaction_line", <<date, clean_line, page_num>>) ELSE <<>>)
                 \o RBCLines(lines, i + 1, date, page_num)
        ELSE (IF current_date # <<>>
              THEN Invoke("_parse_rbc_transaction_line", <<current_date, line, page_num>>) ELSE <<>>)
             \o RBCLines(lines, i + 1, current_date, page_num)

\* the date the loop over the lines of a page is left with
RECURSIVE RBCDateAfter(_, _, _)
RBCDateAfter(lines, i, current_date) ==
    IF i > Len(lines) THEN current_date
    ELSE
    LET line == Invoke("Strip", <<lines[i]>>)
        date_match == Invoke("Search", <<<<Rep(D, 1, 2), Ws1, A3>>, line>>)
    IN  IF line = <<>> \/ ContainsAny(Invoke("Lower", <<line>>), TableSkipWords) \/ date_match = <<>>
           \/ MonthNum(Invoke("Lower", <<Group(date_match, 3, line)>>)) = 0
        THEN RBCDateAfter(lines, i + 1, current_date)
        ELSE RBCDateAfter(lines, i + 1, Invoke("_parse_rbc_date", <<Group0(date_match, line)>>))

RECURSIVE RBCDateBefore(_, _)
RBCDateBefore(pdf, p) ==
    IF p = 1 THEN <<>>
    ELSE IF InPage(pdf.pages[p - 1], <<"D","e","t","a","i","l","s"," ","o","f"," ","y","o","u","r"," ","a","c","c","o","u","n","t"," ","a","c","t","i","v","i","t","y">>)
    THEN RBCDateAfter(pdf.pages[p - 1], 1, RBCDateBefore(pdf, p - 1))
    ELSE RBCDateBefore(pdf, p - 1)

\* the date kept from one page to the next
RBCDateKept(pdf) ==
    IF ~pdf.openable THEN <<>>
    ELSE Concat([p \in 1..Len(pdf.pages) |->
           IF InPage(pdf.pages[p], <<"D","e","t","a","i","l","s"," ","o","f"," ","y","o","u","r"," ","a","c","c","o","u","n","t"," ","a","c","t","i","v","i","t","y">>)
           THEN Invoke("RBCLines", <<pdf.pages[p], 1, RBCDateBefore(pdf, p), p>>) ELSE <<>>])

RBCBank_extract_transactions(pdf) ==
    IF ~pdf.openable THEN <<>>
    ELSE Concat([p \in 1..Len(pdf.pages) |->
           IF InPage(pdf.pages[p], <<"D","e","t","a","i","l","s"," ","o","f"," ","y","o","u","r"," ","a","c","c","o","u","n","t"," ","a","c","t","i","v","i","t","y">>)
           THEN Invoke("RBCLines", <<pdf.pages[p], 1, <<>>, p>>) ELSE <<>>])

_parse_cibc_date(date_str) ==
    IF Invoke("Match", <<<<Bol, A3, Ws1, Rep(D, 1, 2), Eol>>, date_str>>) = <<>> THEN <<"U","n","k","n","o","w","n">>
    ELSE LET parts == Invoke("SplitWs", <<Invoke("Strip", <<date_str>>)>>)
             month == MonthNum(Invoke("Lower", <<parts[1]>>))
         IN  Fmt2(month) \o <<"-">> \o Fmt2(ToNat(parts[2]))

CIBCSkipPatterns ==
    {<<"o","p","e","n","i","n","g"," ","b","a","l","a","n","c","e">>, <<"c","l","o","s","i","n","g"," ","b","a","l","a","n","c","e">>, <<"b","a","l","a","n","c","e"," ","f","o","r","w","a","r","d">>, <<"t","o","t","a","l">>, <<"s","u","m","m","a","r","y">>,
     <<"c","o","n","t","i","n","u","e","d">>, <<"t","r","a","n","s","a","c","t","i","o","n"," ","d","e","t","a","i","l","s">>}
CIBCCreditPatterns == {<<"d","e","p","o","s","i","t">>, <<"e","-","t","r","a","n","s","f","e","r">>, <<"t","r","a","n","s","f","e","r"," ","i","n">>, <<"i","n","t","e","r","e","s","t">>, <<"r","e","f","u","n","d">>, <<"r","e","b","a","t","e">>}

_parse_cibc_transaction_line(date, line, page_num) ==
    LET amounts == Invoke("FindAll", <<<<Decimal2>>, line>>)
    IN  IF Len(Invoke("Strip", <<line>>)) < 5 \/ ContainsAny(Invoke("Lower", <<line>>), CIBCSkipPatterns) \/ amounts = <<>>
        THEN <<>>
        ELSE
        LET amount == Invoke("clean_amount", <<amounts[1]>>)
            description == Respaced(TrimNonWord(Invoke("Strip", <<Before(line, amounts[1])>>)))
        IN  IF amount <= 0 \/ Len(description) < 3 \/ date = <<>> \/ date = <<"U","n","k","n","o","w","n">>
            THEN <<>>
            ELSE << SetKey(TableRecord(date, description, amount, page_num, <<"C","I","B","C">>,
                                       <<"c","i","b","c","_","p","r","o","c","e","s","s","o","r">>,
                                       ContainsAny(Invoke("Lower", <<description>>), CIBCCreditPatterns)),
                           "balance",
                           IF Len(amounts) > 1 THEN Invoke("clean_amount", <<amounts[2]>>) ELSE <<>>) >>

\* the loop over the lines of one page; current_date is <<>> for None
RECURSIVE CIBCLines(_, _, _, _)
CIBCLines(lines, i, current_date, page_num) ==
    IF i > Len(lines) THEN <<>>
    ELSE
    LET line == Invoke("Strip", <<lines[i]>>)
        date_match == Invoke("Search", <<<<A3, Ws1, Rep(D, 1, 2)>>, line>>)
        found_date == /\ date_match # <<>>
                      /\ MonthNum(Invoke("Lower", <<Group(date_match, 1, line)>>)) # 0
    IN  IF line = <<>> \/ ContainsAny(Invoke("Lower", <<line>>), TableSkipWords)
        THEN CIBCLines(lines, i + 1, current_date, page_num)
        ELSE IF found_date
        THEN LET date == Invoke("_parse_cibc_date", <<Group0(date_match, line)>>)
                 clean_line == Invoke("Strip", <<RemoveAll(line, Group0(date_match, line))>>)
             IN  (IF clean_line # <<>>
                  THEN Invoke("_parse_cibc_transaction_line", <<date, clean_line, page_num>>) ELSE <<>>)
                 \o CIBCLines(lines, i + 1, date, page_num)
        ELSE (IF current_date # <<>>
              THEN Invoke("_parse_cibc_transaction_line", <<current_date, line, page_num>>) ELSE <<>>)
             \o CIBCLines(lines, i + 1, current_date, page_num)

\* range(1, len(pdf.pages)): the first page is not read.  A page without text
\* has the text '' and so no table.
CIBC_extract_transactions(pdf) ==
    IF ~pdf.openable THEN <<>>
    ELSE Concat([q \in 1..(Len(pdf.pages) - 1) |->
           IF InPage(pdf.pages[q + 1], <<"T","r","a","n","s","a","c","t","i","o","n"," ","d","e","t","a","i","l","s">>)
           THEN Invoke("CIBCLines", <<pdf.pages[q + 1], 1, <<>>, q + 1>>) ELSE <<>>])

--------------------------------------------------------------------------
(* TDCreditCardProcessor and TangerineCreditCardProcessor: two dates, a    *)
(* description and an amount on one line                                   *)

\* s.upper()
Upper(s) == List([i \in 1..Len(s) |-> IF s[i] \in Lowers THEN ToUpper[s[i]] ELSE s[i]])

U3 == Rep(Ch(Uppers), 3, 3)                                  \* [A-Z]{3}
MonDay == Cat(<<U3, Ws0, Rep(D, 1, 2)>>)                     \* [A-Z]{3}\s*\d{1,2}
DollarAmount == Cat(<<Opt(Ch({"-"})), Ch({"$"}), Decimal2>>)        \* -?\$[\d,]+\.\d{2}
SignedAmount == Cat(<<Opt(Ch({"-"})), Opt(Ch({"$"})), Decimal2>>)   \* -?\$?[\d,]+\.\d{2}

TDCreditSkipPatterns ==
    {<<"p","r","e","v","i","o","u","s"," ","s","t","a","t","e","m","e","n","t">>, <<"a","c","t","i","v","i","t","y"," ","d","e","s","c","r","i","p","t","i","o","n">>, <<"a","m","o","u","n","t">>, <<"d","a","t","e">>, <<"c","o","n","t","i","n","u","e","d">>,
     <<"n","e","t"," ","a","m","o","u","n","t">>, <<"t","o","t","a","l">>, <<"b","a","l","a","n","c","e">>, <<"p","a","y","m","e","n","t">>, <<"f","o","r","e","i","g","n"," ","c","u","r","r","e","n","c","y">>, <<"@","e","x","c","h","a","n","g","e"," ","r","a","t","e">>}
TDCreditHeaders == {<<"A","C","T","I","V","I","T","Y"," ","D","E","S","C","R","I","P","T","I","O","N">>, <<"T","R","A","N","S","A","C","T","I","O">>}
TDCreditEnds == {<<"N","E","T"," ","A","M","O","U","N","T"," ","O","F"," ","M","O","N","T","H","L","Y">>, <<"T","O","T","A","L"," ","N","E","W"," ","B","A","L","A","N","C","E">>, <<"C","A","L","C","U","L","A","T","I","N","G"," ","Y","O","U","R"," ","B","A","L","A","N","C","E">>,
                 <<"P","A","Y","M","E","N","T"," ","I","N","F","O","R","M","A","T","I","O","N">>}

_is_td_credit_transaction(line) ==
    /\ ~ContainsAny(Invoke("Lower", <<line>>), TDCreditSkipPatterns)
    /\ Invoke("Search", <<<<Bol, MonDay, Ws1, MonDay>>, line>>) # <<>>
    /\ Invoke("Search", <<<<DollarAmount>>, line>>) # <<>>
    /\ Len(line) > 15

\* the record of a credit card line: a positive amount is spending
CardRecord(date, posting_date, description, amount, page_num, bank, method) ==
    [date |-> date, posting_date |-> posting_date, description |-> description,
     amount |-> amount, page |-> page_num, bank |-> bank, confidence |-> 90,
     transaction_type |-> IF amount > 0 THEN <<"d","e","b","i","t">> ELSE <<"c","r","e","d","i","t">>,
     is_spending |-> amount > 0, abs_amount |-> Abs(amount),
     processing_method |-> method, confidence_level |-> <<"h","i","g","h">>]

_parse_td_credit_date(date_str) ==
    LET parts == Invoke("SplitWs", <<Invoke("Strip", <<date_str>>)>>)
        match == Invoke("Match", <<<<Bol, U3, Rep(D, 1, 2), Eol>>, Upper(Invoke("Strip", <<date_str>>))>>)
    IN  IF Len(parts) >= 2 /\ MonthNum(Invoke("Lower", <<parts[1]>>)) # 0
        THEN Fmt2(MonthNum(Invoke("Lower", <<parts[1]>>))) \o <<"-">> \o ZFill2(parts[2])
        ELSE IF match # <<>> /\ MonthNum(Invoke("Lower", <<Group(match, 2, Invoke("Strip", <<date_str>>))>>)) # 0
        THEN Fmt2(MonthNum(Invoke("Lower", <<Group(match, 2, Invoke("Strip", <<date_str>>))>>)))
             \o <<"-">> \o ZFill2(Group(match, 3, Invoke("Strip", <<date_str>>)))
        ELSE <<"U","n","k","n","o","w","n">>

\* the amount of the final pattern has no anchor at the end of the line: the
\* lazy description stops before the first token that reads as an amount
_parse_td_credit_transaction(line, page_num) ==
    LET match == Invoke("Search", <<<<Bol, MonDay, Ws1, MonDay, Ws1, LazyRep(AnyCh, 0, Unbounded), Ws1,
                          SignedAmount>>, line>>)
    IN  IF match = <<>> THEN <<>>
        ELSE
        LET parsed_trans_date == Invoke("_parse_td_credit_date", <<Group(match, 2, line)>>)
            parsed_post_date == Invoke("_parse_td_credit_date", <<Group(match, 4, line)>>)
        IN  IF parsed_trans_date = <<"U","n","k","n","o","w","n">> THEN <<>>
            ELSE << CardRecord(parsed_trans_date, parsed_post_date,
                               Invoke("Strip", <<Group(match, 6, line)>>),
                               Invoke("clean_amount", <<Group(match, 8, line)>>), page_num,
                               <<"T","D"," ","C","r","e","d","i","t"," ","C","a","r","d">>, <<"t","d","_","c","r","e","d","i","t","_","c","a","r","d","_","p","r","o","c","e","s","s","o","r">>) >>

\* the loop over the lines of one page
RECURSIVE TDCreditLines(_, _, _, _)
TDCreditLines(lines, i, in_transaction_section, page_num) ==
    IF i > Len(lines) THEN <<>>
    ELSE
    LET line == Invoke("Strip", <<lines[i]>>)
    IN  IF ContainsAny(line, TDCreditHeaders)
        THEN TDCreditLines(lines, i + 1, TRUE, page_num)
        ELSE IF ContainsAny(line, TDCreditEnds)
        THEN TDCreditLines(lines, i + 1, FALSE, page_num)
        ELSE (IF in_transaction_section /\ Invoke("_is_td_credit_transaction", <<line>>)
              THEN Invoke("_parse_td_credit_transaction", <<line, page_num>>) ELSE <<>>)
             \o TDCreditLines(lines, i + 1, in_transaction_section, page_num)

TDCreditCard_extract_transactions(pdf) ==
    IF ~pdf.openable THEN <<>>
    ELSE Concat([p \in 1..Len(pdf.pages) |-> Invoke("TDCreditLines", <<pdf.pages[p], 1, FALSE, p>>)])

\* \d{2}-[A-Z][a-z]{2}-\d{4}
DayMonYear == Cat(<<Rep(D, 2, 2), Ch({"-"}), Ch(Uppers), Rep(Ch(Lowers), 2, 2), Ch({"-"}),
                    Rep(D, 4, 4)>>)

TangerineCreditSkipPatterns ==
    {<<"t","r","a","n","s","a","c","t","i","o","n"," ","p","o","s","t","e","d">>, <<"d","e","s","c","r","i","p","t","i","o","n">>, <<"c","a","t","e","g","o","r","y">>, <<"a","m","o","u","n","t">>, <<"r","e","w","a","r","d">>, <<"p","r","e","v","i","o","u","s"," ","b","a","l","a","n","c","e">>,
     <<"y","o","u","r"," ","c","h","o","s","e","n">>, <<"c","u","r","r","e","n","t","l","y"," ","e","a","r","n","i","n","g">>, <<"m","o","n","e","y","-","b","a","c","k">>, <<"p","u","r","c","h","a","s","e","s">>, <<"c","a","s","h"," ","a","d","v","a","n","c","e","s">>, <<"q","u","e","b","e","c">>}
TangerineCreditEnds ==
    {<<"T","a","n","g","e","r","i","n","e",".","c","a",":">>, <<"M","i","n","i","m","u","m"," ","P","a","y","m","e","n","t",":">>, <<"T","r","a","n","s","a","c","t","i","o","n","/","P","o","s","t","i","n","g"," ","D","a","t","e">>,
     <<"I","n","t","e","r","e","s","t"," ","a","n","d"," ","G","r","a","c","e"," ","P","e","r","i","o","d">>, <<"F","o","r","e","i","g","n"," ","C","u","r","r","e","n","c","y"," ","T","r","a","n","s","a","c","t","i","o","n","s">>}
Provinces == <<<<"Q","C">>, <<"O","N">>, <<"B","C">>, <<"A","B">>, <<"M","B">>, <<"S","K">>, <<"N","B">>, <<"N","S">>, <<"P","E">>, <<"N","L">>>>

_is_tangerine_credit_transaction(line) ==
    /\ ~ContainsAny(Invoke("Lower", <<line>>), TangerineCreditSkipPatterns)
    /\ Invoke("Search", <<<<DayMonYear, Ws1, DayMonYear>>, line>>) # <<>>
    /\ Invoke("Search", <<<<DollarAmount>>, line>>) # <<>>
    /\ Len(line) > 25

\* date_str.split('-')
SplitDash(s) ==
    LET cut == <<0>> \o SelectSeq([i \in 1..Len(s) |-> i], LAMBDA i : s[i] = "-")
               \o <<Len(s) + 1>>
    IN  [k \in 1..(Len(cut) - 1) |-> SubSeq(s, cut[k] + 1, cut[k + 1] - 1)]

_parse_tangerine_credit_date(date_str) ==
    LET parts == SplitDash(date_str)
    IN  IF Len(parts) >= 3 /\ MonthNum(Invoke("Lower", <<parts[2]>>)) # 0
        THEN Fmt2(MonthNum(Invoke("Lower", <<parts[2]>>))) \o <<"-">> \o ZFill2(parts[1])
        ELSE <<"U","n","k","n","o","w","n">>

\* the reward group is ([\d,]+\.\d{2}|-) with a dash that is not a character of
\* the documents here, so it is an amount or absent
_parse_tangerine_credit_transaction(line, page_num) ==
    LET match == Invoke("Search", <<<<DayMonYear, Ws1, DayMonYear, Ws1, LazyRep(AnyCh, 0, Unbounded), Ws1,
                          SignedAmount, Opt(Cat(<<Ws1, Opt(Ch({"$"})), Decimal2>>))>>, line>>)
    IN  IF match = <<>> THEN <<>>
        ELSE
        LET parsed_trans_date == Invoke("_parse_tangerine_credit_date", <<Group(match, 1, line)>>)
            parsed_post_date == Invoke("_parse_tangerine_credit_date", <<Group(match, 3, line)>>)
            reward == Group(match, 8, line)
            description == Respaced(Invoke("Sub", <<<<Ws1, Alt([i \in 1..10 |-> Lit(Provinces[i])]),
                                          Alt(<<Ch(Space), Eol>>)>>, <<>>,
                                        Invoke("Strip", <<Group(match, 5, line)>>)>>))
        IN  IF parsed_trans_date = <<"U","n","k","n","o","w","n">> THEN <<>>
            ELSE << SetKey(CardRecord(parsed_trans_date, parsed_post_date, description,
                                      Invoke("clean_amount", <<Group(match, 7, line)>>), page_num,
                                      <<"T","a","n","g","e","r","i","n","e"," ","C","r","e","d","i","t"," ","C","a","r","d">>,
                                      <<"t","a","n","g","e","r","i","n","e","_","c","r","e","d","i","t","_","c","a","r","d","_","p","r","o","c","e","s","s","o","r">>),
                           "reward_earned",
                           IF reward = <<>> THEN 0 ELSE Invoke("clean_amount", <<reward>>)) >>

\* a line with one of the terminal keywords is passed over; every other line
\* is parsed, inside the transaction section or not
TangerineCreditCard_extract_transactions(pdf) ==
    IF ~pdf.openable THEN <<>>
    ELSE Concat([p \in 1..Len(pdf.pages) |->
           Concat([i \in 1..Len(pdf.pages[p]) |->
             LET line == Invoke("Strip", <<pdf.pages[p][i]>>)
             IN  IF Contains(line, <<"T","r","a","n","s","a","c","t","i","o","n"," ","P","o","s","t","e","d"," ","D","e","s","c","r","i","p","t","i","o","n"," ","C","a","t","e","g","o","r","y"," ","A","m","o","u","n","t"," ","R","e","w","a","r","d">>)
                    \/ ContainsAny(line, TangerineCreditEnds)
                 THEN <<>>
                 ELSE IF Invoke("_is_tangerine_credit_transaction", <<line>>)
                 THEN Invoke("_parse_tangerine_credit_transaction", <<line, p>>) ELSE <<>>])])

--------------------------------------------------------------------------
(* CIBCVisaProcessor: two dates, a description and an amount on one line,  *)
(* an optional line with the exchange rate under it                        *)

\* s.isupper(): a cased character, and no lower case one
IsUpper(s) ==
    /\ \E i \in 1..Len(s) : s[i] \in Uppers
    /\ \A i \in 1..Len(s) : s[i] \notin Lowers

\* str(x) of a non-negative amount held in cents: '18.53', '18.5', '18.0'
FloatRepr(cents) ==
    Str(cents \div 100) \o <<".">> \o
        (IF cents % 10 = 0 THEN <<DigitChar[((cents \div 10) % 10) + 1]>>
         ELSE Fmt2(cents % 100))

MonSpDay == Cat(<<U3, Ws1, Rep(D, 1, 2)>>)                   \* [A-Z]{3}\s+\d{1,2}
CIBCVisaSkipPatterns ==
    {<<"t","r","a","n","s"," ","p","o","s","t">>, <<"d","a","t","e"," ","d","a","t","e">>, <<"d","e","s","c","r","i","p","t","i","o","n">>, <<"a","m","o","u","n","t">>, <<"c","a","r","d"," ","n","u","m","b","e","r">>, <<"p","r","e","p","a","r","e","d"," ","f","o","r">>,
     <<"a","c","c","o","u","n","t"," ","n","u","m","b","e","r">>, <<"i","n","f","o","r","m","a","t","i","o","n"," ","a","b","o","u","t">>}
CIBCVisaEnds ==
    {<<"I","n","f","o","r","m","a","t","i","o","n"," ","a","b","o","u","t"," ","y","o","u","r"," ","C","I","B","C">>, <<"P","a","y","m","e","n","t"," ","o","p","t","i","o","n","s">>, <<"I","n","t","e","r","e","s","t"," ","c","h","a","r","g","e","s">>, <<"F","o","r","e","i","g","n"," ","c","u","r","r","e","n","c","y">>}

_is_cibc_visa_transaction(line) ==
    /\ ~ContainsAny(Invoke("Lower", <<line>>), CIBCVisaSkipPatterns)
    /\ Invoke("Search", <<<<Bol, MonSpDay, Ws1, MonSpDay>>, line>>) # <<>>
    /\ Invoke("Search", <<<<Decimal2, Eol>>, line>>) # <<>>
    /\ Len(line) > 20

_parse_cibc_visa_date(date_str) ==
    LET parts == Invoke("SplitWs", <<Invoke("Strip", <<date_str>>)>>)
    IN  IF Len(parts) >= 2 /\ MonthNum(Invoke("Lower", <<parts[1]>>)) # 0
        THEN Fmt2(MonthNum(Invoke("Lower", <<parts[1]>>))) \o <<"-">> \o ZFill2(parts[2])
        ELSE <<"U","n","k","n","o","w","n">>

\* the record and the index of the line the loop goes on with; start_idx and
\* next_i count the lines from 1; cad_amount is <<>> for None and the
\* one amount in cents otherwise
_parse_cibc_visa_multiline_transaction(lines, start_idx, page_num) ==
    LET line == Invoke("Strip", <<lines[start_idx]>>)
        match == Invoke("Search", <<<<Bol, MonSpDay, Ws1, MonSpDay, Ws1, LazyRep(AnyCh, 0, Unbounded), Ws1,
                          Decimal2, Eol>>, line>>)
    IN  IF match = <<>> THEN [tx |-> <<>>, next_i |-> start_idx + 1]
        ELSE
        LET description_and_location == Invoke("Strip", <<Group(match, 6, line)>>)
            amount == Invoke("clean_amount", <<Group(match, 8, line)>>)
            desc_parts == Invoke("SplitWs", <<description_and_location>>)
            located == /\ Len(desc_parts) > 1
                       /\ IsUpper(desc_parts[Len(desc_parts)])
                       /\ Len(desc_parts[Len(desc_parts)]) > 2
            parsed_trans_date == Invoke("_parse_cibc_visa_date", <<Group(match, 2, line)>>)
            parsed_post_date == Invoke("_parse_cibc_visa_date", <<Group(match, 4, line)>>)
            next_idx == start_idx + 1
            next_line == IF next_idx <= Len(lines) THEN Invoke("Strip", <<lines[next_idx]>>) ELSE <<>>
            exchange_match ==
                IF next_idx <= Len(lines)
                THEN Invoke("Search", <<<<Bol, Decimal2, Ws1, Lit(<<"C","A","D">>), Ws1, Lit(<<"@">>), Ws1,
                              Plus(Ch(Digits \cup {"."}))>>, next_line>>)
                ELSE <<>>
            cad_amount == IF exchange_match = <<>> THEN <<>>
                          ELSE <<Invoke("clean_amount", <<Group(exchange_match, 2, next_line)>>)>>
        IN  IF parsed_trans_date = <<"U","n","k","n","o","w","n">> THEN [tx |-> <<>>, next_i |-> start_idx + 1]
            ELSE
            [tx |-> << [date |-> parsed_trans_date, posting_date |-> parsed_post_date,
                        description |-> IF located
                                        THEN JoinWith(Take(desc_parts, Len(desc_parts) - 1), <<" ">>)
                                        ELSE description_and_location,
                        location |-> IF located THEN desc_parts[Len(desc_parts)] ELSE <<>>,
                        amount |-> amount, currency |-> <<"U","S","D">>, cad_amount |-> cad_amount,
                        exchange_rate_info |->
                            IF exchange_match = <<>> THEN <<>>
                            ELSE <<"C","A","D"," ","$">> \o FloatRepr(cad_amount[1]) \o <<" ","@"," ">>
                                 \o Group(exchange_match, 8, next_line),
                        page |-> page_num, bank |-> <<"C","I","B","C"," ","V","i","s","a">>, confidence |-> 90,
                        transaction_type |-> IF amount > 0 THEN <<"d","e","b","i","t">> ELSE <<"c","r","e","d","i","t">>,
                        is_spending |-> amount > 0, abs_amount |-> Abs(amount),
                        processing_method |-> <<"c","i","b","c","_","v","i","s","a","_","p","r","o","c","e","s","s","o","r">>,
                        confidence_level |-> <<"h","i","g","h">>] >>,
             next_i |-> IF exchange_match = <<>> THEN next_idx ELSE next_idx + 1]

\* one iteration of the while loop over the lines of a page, from the line
\* index i and the section flag: the records it appends, the index and the
\* flag it leaves
CIBCVisaIteration(lines, i, in_transaction_section, page_num) ==
    LET line == Invoke("Strip", <<lines[i]>>)
    IN  IF /\ Contains(line, <<"T","r","a","n","s"," ","P","o","s","t">>) /\ i + 1 <= Len(lines)
           /\ Contains(lines[i + 1], <<"d","a","t","e"," ","d","a","t","e"," ","D","e","s","c","r","i","p","t","i","o","n">>)
        THEN [tx |-> <<>>, i |-> i + 2, in_transaction_section |-> TRUE]
        ELSE
        LET in_section == in_transaction_section /\ ~ContainsAny(line, CIBCVisaEnds)
        IN  IF in_section /\ Invoke("_is_cibc_visa_transaction", <<line>>)
            THEN LET r == Invoke("_parse_cibc_visa_multiline_transaction", <<lines, i, page_num>>)
                 IN  [tx |-> r.tx, i |-> r.next_i, in_transaction_section |-> in_section]
            ELSE [tx |-> <<>>, i |-> i + 1, in_transaction_section |-> in_section]

\* one iteration of the while loop of TangerineProcessor.extract_transactions
TangerineIteration(lines, i, in_transaction_section, page_num) ==
    LET line == Invoke("Strip", <<lines[i]>>)
    IN  IF (Contains(line, <<"T","r","a","n","s","a","c","t","i","o","n"," ","D","a","t","e">>) /\ Contains(line, <<"T","r","a","n","s","a","c","t","i","o","n"," ","D","e","s","c","r","i","p","t","i","o","n">>))
           \/ (Contains(line, <<"T","r","a","n","s","a","c","t","i","o","n"," ","D","a","t","e">>) /\ Contains(line, <<"A","m","o","u","n","t">>))
        THEN [tx |-> <<>>, i |-> i + 1, in_transaction_section |-> TRUE]
        ELSE IF Contains(line, <<"C","u","r","r","e","n","t"," ","I","n","t","e","r","e","s","t"," ","R","a","t","e">>) \/ Contains(line, <<"T","h","e"," ","D","e","t","a","i","l","s"," ","-">>)
        THEN [tx |-> <<>>, i |-> i + 1, in_transaction_section |-> FALSE]
        ELSE IF in_transaction_section /\ Invoke("_is_tangerine_transaction", <<line>>)
        THEN LET r == Invoke("_parse_tangerine_multiline_transaction", <<lines, i, page_num>>)
             IN  [tx |-> r.tx, i |-> i + r.lines_consumed,
                  in_transaction_section |-> in_transaction_section]
        ELSE [tx |-> <<>>, i |-> i + 1, in_transaction_section |-> in_transaction_section]

--------------------------------------------------------------------------
(* TextBasedExtractor: the generic extractor.  The page text is handled as *)
(* its list of lines: no pattern of the extractor can match across a line  *)
(* break, so the substitutions of _preprocess_text act line by line.       *)

Grouped3 == Cat(<<Rep(D, 1, 3), Star(Cat(<<Ch({","}), Rep(D, 3, 3)>>)),
                  Ch({"."}), Rep(D, 2, 2)>>)             \* \d{1,3}(?:,\d{3})*\.\d{2}
Plain2 == Cat(<<Plus(D), Ch({"."}), Rep(D, 2, 2)>>)      \* \d+\.\d{2}
SlashDash == Ch({"/", "-"})                              \* [/-]
NumericDate == Cat(<<Rep(D, 1, 2), SlashDash, Rep(D, 1, 2), SlashDash, Rep(D, 2, 4)>>)
IsoDate == Cat(<<Rep(D, 4, 4), SlashDash, Rep(D, 1, 2), SlashDash, Rep(D, 1, 2)>>)

\* self.date_patterns, each searched with re.IGNORECASE
date_patterns == <<
    <<NumericDate>>,
    <<IsoDate>>,
    <<Cat(<<ReMonthCI, Opt(Ch({"."})), Ws0, Rep(D, 1, 2), Opt(Ch({","})), Ws0, Rep(D, 4, 4)>>)>>,
    <<Cat(<<Rep(D, 1, 2), Ws1, ReMonthCI>>)>>,
    <<Cat(<<ReMonthCI, Ch({"."}), Rep(D, 1, 2), Ch({","}), Rep(D, 4, 4)>>)>>,
    <<Cat(<<ReMonthCI, Ch({"."}), Rep(D, 1, 2), WordB>>)>> >>

\* self.amount_patterns, in the order they are tried
amount_patterns == <<
    <<Cat(<<Ch({"$"}), Grouped3>>)>>,
    <<Cat(<<Ch({"$"}), Plain2>>)>>,
    <<Cat(<<Ch({"("}), Ch({"$"}), Plain2, Ch({")"})>>)>>,
    <<Cat(<<Ch({"+"}), Opt(Ch({"$"})), Grouped3>>)>>,
    <<Cat(<<Ch({"-"}), Opt(Ch({"$"})), Grouped3>>)>>,
    <<Cat(<<WordB, Grouped3, WordB>>)>>,
    <<Cat(<<WordB, Plain2, WordB>>)>> >>

exclusion_keywords ==
    {<<"o","p","e","n","i","n","g"," ","b","a","l","a","n","c","e">>, <<"c","l","o","s","i","n","g"," ","b","a","l","a","n","c","e">>, <<"t","o","t","a","l">>, <<"s","u","b","t","o","t","a","l">>, <<"p","r","e","v","i","o","u","s"," ","s","t","a","t","e","m","e","n","t">>,
     <<"t","e","r","m","s"," ","a","n","d"," ","c","o","n","d","i","t","i","o","n","s">>, <<"p","r","i","v","a","c","y"," ","p","o","l","i","c","y">>, <<"p","r","i","o","r"," ","t","o"," ","a","p","r","i","l">>, <<"m","e","m","b","e","r"," ","o","f">>,
     <<"d","e","p","o","s","i","t"," ","i","n","s","u","r","a","n","c","e">>}

\* any(re.search(p, line) for p in patterns)
AnySearch(patterns, line) == \E k \in 1..Len(patterns) : Invoke("Search", <<patterns[k], line>>) # <<>>

\* for p in patterns: match = re.search(p, line); if match: return match.group()
RECURSIVE FirstSearch(_, _, _)
FirstSearch(patterns, line, k) ==
    IF k > Len(patterns) THEN <<>>
    ELSE LET m == Invoke("Search", <<patterns[k], line>>)
         IN  IF m # <<>> THEN Group0(m, line) ELSE FirstSearch(patterns, line, k + 1)

\* for p in patterns: s = re.sub(p, '', s)
RECURSIVE RemovePatterns(_, _, _)
RemovePatterns(patterns, s, k) ==
    IF k > Len(patterns) THEN s
    ELSE After(s, RemovePatterns(patterns, SubEmpty(patterns[k], s), k + 1))

Letter == Ch(Alpha)
PreprocessKeywords ==
    << <<"P","r","e","v","i","o","u","s","B","a","l","a","n","c","e">>, <<"N","e","w","B","a","l","a","n","c","e">>, <<"P","a","y","m","e","n","t","D","u","e">>, <<"C","r","e","d","i","t","L","i","m","i","t">>, <<"M","i","n","i","m","u","m","P","a","y","m","e","n","t">> >>
SpaceBetween == << [g |-> 1, lit |-> <<" ">>], [g |-> 2, lit |-> <<>>] >>      \* r'\1 \2'

\* the two re.sub calls of each keyword, one keyword after the other
RECURSIVE PreprocessKeyword(_, _)
PreprocessKeyword(line, k) ==
    IF k > Len(PreprocessKeywords) THEN line
    ELSE LET kw == PreprocessKeywords[k]
         IN  PreprocessKeyword(
                 Invoke("Sub", <<<<LitCI(kw), Letter>>,
                     << [g |-> 0, lit |-> kw \o <<" ">>], [g |-> 2, lit |-> <<>>] >>,
                     Invoke("Sub", <<<<Letter, LitCI(kw)>>, << [g |-> 1, lit |-> <<" ">> \o kw] >>, line>>)>>),
                 k + 1)

\* the re.sub calls on the text, in order: the pattern p and the replacement r
PreprocessSubs == <<
    [p |-> <<Letter, NumericDate>>, r |-> SpaceBetween],
    [p |-> <<Letter, ReMonthCI>>, r |-> SpaceBetween],
    [p |-> <<Letter, Cat(<<Ch({"$"}), D>>)>>, r |-> SpaceBetween],
    [p |-> <<Letter, Cat(<<Ch({"+"}), Opt(Ch({"$"})), D>>)>>, r |-> SpaceBetween],
    [p |-> <<Letter, Cat(<<Ch({"-"}), Opt(Ch({"$"})), D>>)>>, r |-> SpaceBetween],
    [p |-> <<D, Ch({","}), Rep(D, 4, 4)>>,
     r |-> << [g |-> 1, lit |-> <<","," ">>], [g |-> 3, lit |-> <<>>] >>] >>

RECURSIVE SubEach(_, _, _)
SubEach(subs, s, k) ==
    IF k > Len(subs) THEN s
    ELSE SubEach(subs, Invoke("Sub", <<subs[k].p, subs[k].r, s>>), k + 1)

\* _preprocess_text on one line of the text
_preprocess_text(line) == PreprocessKeyword(SubEach(PreprocessSubs, line, 1), 1)

_extract_date(line) == Invoke("FirstSearch", <<Invoke("date_patterns", <<>>), line, 1>>)

\* returns found = FALSE for None
RECURSIVE ExtractAmountFrom(_, _)
ExtractAmountFrom(line, k) ==
    IF k > Len(Invoke("amount_patterns", <<>>)) THEN [found |-> FALSE, amount |-> 0]
    ELSE
    LET m == Invoke("Search", <<Invoke("amount_patterns", <<>>)[k], line>>)
        amount_str == Group0(m, line)
        is_negative == Contains(amount_str, <<"(">>) \/ StartsWith(amount_str, <<"-">>)
        f == Invoke("ParseFloat", <<SelectSeq(amount_str, LAMBDA c : c \in Digits \cup {"."})>>)
    IN  IF m = <<>> \/ ~f.ok THEN ExtractAmountFrom(line, k + 1)
        ELSE [found |-> TRUE, amount |-> IF is_negative THEN 0 - f.cents ELSE f.cents]

_extract_amount(line) == ExtractAmountFrom(line, 1)

_extract_description(line, date, amount) ==
    LET undated == IF date # <<>> THEN RemoveAll(line, date) ELSE line
        description == JoinWith(Invoke("SplitWs", <<RemovePatterns(Invoke("amount_patterns", <<>>), undated, 1)>>), <<" ">>)
    IN  IF Len(description) < 5 THEN <<"T","r","a","n","s","a","c","t","i","o","n">> ELSE description

_parse_transaction_line(line, page_num) ==
    LET date == Invoke("_extract_date", <<line>>)
        amount == Invoke("_extract_amount", <<line>>)
    IN  IF date = <<>> \/ ~amount.found THEN <<>>
        ELSE << [date |-> date,
                 description |-> Invoke("_extract_description", <<line, date, amount.amount>>),
                 amount |-> amount.amount, page |-> page_num, confidence |-> 85,
                 extraction_method |-> <<"t","e","x","t","_","p","a","t","t","e","r","n">>] >>

_is_table_like_line(line) ==
    \/ Invoke("AnySearch", <<Invoke("date_patterns", <<>>), line>>) /\ Invoke("AnySearch", <<Invoke("amount_patterns", <<>>), line>>)
    \/ Len(Invoke("FindAll", <<<<Plus(D)>>, line>>)) >= 3

\* the loop of _detect_table_regions: a region is its list of lines
RECURSIVE DetectFrom(_, _, _)
DetectFrom(lines, i, current_region) ==
    IF i > Len(lines)
    THEN IF Len(current_region) >= 2 THEN <<current_region>> ELSE <<>>
    ELSE
    LET line == Invoke("Strip", <<lines[i]>>)
    IN  IF line = <<>>
        THEN (IF current_region # <<>> THEN <<current_region>> ELSE <<>>)
             \o DetectFrom(lines, i + 1, <<>>)
        ELSE IF Invoke("_is_table_like_line", <<line>>)
        THEN DetectFrom(lines, i + 1, Append(current_region, line))
        ELSE (IF Len(current_region) >= 2 THEN <<current_region>> ELSE <<>>)
             \o DetectFrom(lines, i + 1, <<>>)

_detect_table_regions(lines) == DetectFrom(lines, 1, <<>>)

TransactionKeywords == {<<"d","a","t","e">>, <<"t","r","a","n","s","a","c","t","i","o","n">>, <<"d","e","s","c","r","i","p","t","i","o","n">>, <<"a","m","o","u","n","t">>, <<"d","e","b","i","t">>, <<"c","r","e","d","i","t">>}

Count(S) == Cardinality(S)

_score_transaction_table(region) ==
    LET text == List([i \in 1..Len(region) |-> Invoke("Lower", <<region[i]>>)])
        InText(k) == \E i \in 1..Len(text) : Contains(text[i], k)
        date_count == Count({i \in 1..Len(region) : Invoke("AnySearch", <<Invoke("date_patterns", <<>>), region[i]>>)})
        amount_count == Count({i \in 1..Len(region) : Invoke("AnySearch", <<Invoke("amount_patterns", <<>>), region[i]>>)})
        score == 2 * Count({k \in TransactionKeywords : InText(k)})
                 + Least(date_count, 5) + Least(amount_count, 5)
                 - 3 * Count({k \in exclusion_keywords : InText(k)})
                 + (IF Len(region) >= 3 THEN 2 ELSE 0)
    IN  IF score < 0 THEN 0 ELSE score

\* sorted(tables, key=score, reverse=True): a stable sort, highest score first
RECURSIVE SortByScore(_)
SortByScore(regions) ==
    IF Len(regions) = 0 THEN <<>>
    ELSE LET best == CHOOSE i \in 1..Len(regions) :
                       /\ \A j \in 1..Len(regions) :
                            Invoke("_score_transaction_table", <<regions[j]>>)
                              <= Invoke("_score_transaction_table", <<regions[i]>>)
                       /\ \A j \in 1..(i - 1) :
                            Invoke("_score_transaction_table", <<regions[j]>>)
                              < Invoke("_score_transaction_table", <<regions[i]>>)
         IN  <<regions[best]>> \o
             SortByScore(SubSeq(regions, 1, best - 1) \o SubSeq(regions, best + 1, Len(regions)))

_identify_transaction_tables(table_regions) ==
    SortByScore(SelectSeq(table_regions, LAMBDA r : Invoke("_score_transaction_table", <<r>>) >= 5))

HeaderIndicators ==
    {<<"d","a","t","e">>, <<"t","r","a","n","s","a","c","t","i","o","n">>, <<"d","e","s","c","r","i","p","t","i","o","n">>, <<"a","m","o","u","n","t">>, <<"d","e","b","i","t">>, <<"c","r","e","d","i","t">>, <<"b","a","l","a","n","c","e">>}
SummaryKeywords ==
    {<<"t","o","t","a","l">>, <<"s","u","b","t","o","t","a","l">>, <<"b","a","l","a","n","c","e">>, <<"o","p","e","n","i","n","g">>, <<"c","l","o","s","i","n","g">>, <<"p","r","e","v","i","o","u","s">>, <<"c","a","r","r","i","e","d"," ","f","o","r","w","a","r","d">>}

_is_header_line(line) ==
    /\ Count({k \in HeaderIndicators : Contains(Invoke("Lower", <<line>>), k)}) >= 2
    /\ ~(Invoke("AnySearch", <<Invoke("date_patterns", <<>>), line>>) /\ Invoke("AnySearch", <<Invoke("amount_patterns", <<>>), line>>))

_is_summary_line(line) == ContainsAny(Invoke("Lower", <<line>>), SummaryKeywords)

_extract_from_table_region(table_region, page_num) ==
    Concat([i \in 1..Len(table_region) |->
              IF Invoke("_is_header_line", <<table_region[i]>>) \/ Invoke("_is_summary_line", <<table_region[i]>>)
              THEN <<>> ELSE Invoke("_parse_transaction_line", <<table_region[i], page_num>>)])


MultilineSkip == {<<"t","r","a","n","s","a","c","t","i","o","n"," ","d","a","t","e">>, <<"a","c","c","o","u","n","t"," ","b","a","l","a","n","c","e">>, <<"i","n","t","e","r","e","s","t"," ","r","a","t","e">>, <<"o","p","e","n","i","n","g"," ","b","a","l","a","n","c","e">>}
MultilineHeaders == {<<"t","r","a","n","s","a","c","t","i","o","n"," ","d","a","t","e">>, <<"b","a","l","a","n","c","e">>, <<"a","c","c","o","u","n","t">>}

\* the look at the next two lines (for j in range(1, 3)) of
\* _extract_multiline_transactions; st holds found, amount, description_parts, used
RECURSIVE MultilineAhead(_, _, _, _)
MultilineAhead(lines, i, j, st) ==
    IF j > 2 THEN st
    ELSE IF i + j > Len(lines) THEN MultilineAhead(lines, i, j + 1, st)
    ELSE
    LET next_line == Invoke("Strip", <<lines[i + j]>>)
        line_amount == Invoke("_extract_amount", <<next_line>>)
        remaining_text == Invoke("Strip", <<RemovePatterns(Invoke("amount_patterns", <<>>), next_line, 1)>>)
    IN  IF next_line = <<>> THEN st
        ELSE IF line_amount.found /\ ~st.found
        THEN [found |-> TRUE, amount |-> line_amount.amount,
              description_parts |-> IF Len(remaining_text) > 2
                                    THEN Append(st.description_parts, remaining_text)
                                    ELSE st.description_parts,
              used |-> st.used \cup {i + j}]
        ELSE IF Len(next_line) > 5 /\ ~ContainsAny(Invoke("Lower", <<next_line>>), exclusion_keywords)
                /\ ~ContainsAny(Invoke("Lower", <<next_line>>), MultilineHeaders)
        THEN MultilineAhead(lines, i, j + 1,
                 [st EXCEPT !.description_parts = Append(@, next_line),
                            !.used = @ \cup {i + j}])
        ELSE MultilineAhead(lines, i, j + 1, st)

\* the loop over the lines; used_lines is the set of lines already consumed
RECURSIVE MultilineFrom(_, _, _, _)
MultilineFrom(lines, i, used_lines, page_num) ==
    IF i > Len(lines) THEN <<>>
    ELSE
    LET line == Invoke("Strip", <<lines[i]>>)
        date_match == Invoke("FirstSearch", <<Invoke("date_patterns", <<>>), line, 1>>)
    IN  IF i \in used_lines \/ line = <<>> \/ ContainsAny(Invoke("Lower", <<line>>), MultilineSkip)
           \/ date_match = <<>>
        THEN MultilineFrom(lines, i + 1, used_lines, page_num)
        ELSE
        LET current_amount == Invoke("_extract_amount", <<line>>)
            undated == Invoke("Strip", <<RemoveAll(line, date_match)>>)
            current_desc == IF current_amount.found
                            THEN Invoke("Strip", <<RemovePatterns(Invoke("amount_patterns", <<>>), undated, 1)>>)
                            ELSE undated
            first == [found |-> current_amount.found, amount |-> current_amount.amount,
                      description_parts |-> IF current_desc # <<>> THEN <<current_desc>>
                                            ELSE <<>>,
                      used |-> used_lines \cup {i}]
            st == IF current_amount.found THEN first ELSE MultilineAhead(lines, i, 1, first)
            joined == Invoke("Strip", <<JoinWith(st.description_parts, <<" ">>)>>)
            description == Take(JoinWith(Invoke("SplitWs", <<IF Len(joined) < 3 THEN <<"T","r","a","n","s","a","c","t","i","o","n">>
                                                 ELSE joined>>), <<" ">>), 100)
        IN  (IF st.found /\ st.amount > 0
             THEN << [date |-> date_match, description |-> description,
                      amount |-> st.amount, page |-> page_num, confidence |-> 60,
                      extraction_method |-> <<"m","u","l","t","i","l","i","n","e","_","p","a","t","t","e","r","n">>] >>
             ELSE <<>>)
            \o MultilineFrom(lines, i + 1, st.used, page_num)

_extract_multiline_transactions(lines, page_num) == MultilineFrom(lines, 1, {}, page_num)

\* the fallback: every line with a date and an amount, then the multi-line pass
_extract_transaction_patterns(lines, page_num) ==
    LET transactions ==
          Concat([i \in 1..Len(lines) |->
            LET line == Invoke("Strip", <<lines[i]>>)
            IN  IF line = <<>> \/ ContainsAny(Invoke("Lower", <<line>>), exclusion_keywords)
                   \/ ~(Invoke("AnySearch", <<Invoke("date_patterns", <<>>), line>>) /\ Invoke("AnySearch", <<Invoke("amount_patterns", <<>>), line>>))
                THEN <<>>
                ELSE LET t == Invoke("_parse_transaction_line", <<line, page_num>>)
                     IN  IF t = <<>> THEN <<>> ELSE <<[t[1] EXCEPT !.confidence = 70]>>])
    IN  IF Len(transactions) < 5
        THEN transactions \o Invoke("_extract_multiline_transactions", <<lines, page_num>>)
        ELSE transactions

\* text is the page text as its list of lines
extract_transactions_from_text(text, page_num) ==
    LET cleaned_text == List([i \in 1..Len(text) |-> Invoke("_preprocess_text", <<text[i]>>)])
        transaction_tables == Invoke("_identify_transaction_tables", <<Invoke("_detect_table_regions", <<cleaned_text>>)>>)
        transactions == Concat([k \in 1..Len(transaction_tables) |->
                                  Invoke("_extract_from_table_region", <<transaction_tables[k], page_num>>)])
    IN  IF transactions = <<>> THEN Invoke("_extract_transaction_patterns", <<cleaned_text, page_num>>)
        ELSE transactions

Text_extract_transactions(pdf) ==
    IF ~pdf.openable THEN <<>>
    ELSE Concat([p \in 1..Len(pdf.pages) |->
                   IF pdf.pages[p] = <<>> THEN <<>>
                   ELSE Invoke("extract_transactions_from_text", <<pdf.pages[p], p>>)])

--------------------------------------------------------------------------
(* OCRExtractor: one reading of the OCR engine is a text and a confidence  *)

ocr_date_patterns == <<
    <<NumericDate>>,
    <<IsoDate>>,
    <<Cat(<<ReMonthCI, Ws1, Rep(D, 1, 2)>>)>> >>

ocr_amount_patterns == <<
    <<Cat(<<Ch({"$"}), Grouped3>>)>>,
    <<Cat(<<Ch({"$"}), Plain2>>)>>,
    <<Cat(<<Ch({"("}), Ch({"$"}), Plain2, Ch({")"})>>)>> >>

_is_transaction_text(text) ==
    Invoke("AnySearch", <<Invoke("ocr_date_patterns", <<>>), text>>) \/ Invoke("AnySearch", <<Invoke("ocr_amount_patterns", <<>>), text>>)

RECURSIVE OcrAmountFrom(_, _)
OcrAmountFrom(text, k) ==
    IF k > Len(Invoke("ocr_amount_patterns", <<>>)) THEN [found |-> FALSE, amount |-> 0]
    ELSE
    LET m == Invoke("Search", <<Invoke("ocr_amount_patterns", <<>>)[k], text>>)
        f == Invoke("ParseFloat", <<SelectSeq(Group0(m, text), LAMBDA c : c \notin {"$", ",", "(", ")"})>>)
    IN  IF m = <<>> \/ ~f.ok THEN OcrAmountFrom(text, k + 1)
        ELSE [found |-> TRUE,
              amount |-> IF Contains(Group0(m, text), <<"(">>) THEN 0 - f.cents ELSE f.cents]

_parse_ocr_text(text, page_num, ocr_confidence) ==
    LET found_date == Invoke("FirstSearch", <<Invoke("ocr_date_patterns", <<>>), text, 1>>)
        found_amount == OcrAmountFrom(text, 1)
        date == IF found_date = <<>> THEN <<"U","n","k","n","o","w","n">> ELSE found_date
        amount == IF found_amount.found THEN found_amount.amount ELSE 0
        undated == IF date # <<"U","n","k","n","o","w","n">> THEN RemoveAll(text, date) ELSE text
        description == JoinWith(Invoke("SplitWs", <<RemovePatterns(Invoke("ocr_amount_patterns", <<>>), undated, 1)>>), <<" ">>)
    IN  IF found_date = <<>> /\ ~found_amount.found THEN <<>>
        ELSE << [date |-> date,
                 description |-> IF Len(description) < 5 THEN <<"O","C","R"," ","T","r","a","n","s","a","c","t","i","o","n">>
                                 ELSE description,
                 amount |-> amount, page |-> page_num,
                 confidence |-> (ocr_confidence * 8) \div 10,
                 extraction_method |-> <<"o","c","r">>] >>

\* ocr_results is the list of readings of one page image
extract_transactions_from_image(ocr_results, page_num, ocr_reader) ==
    IF ~ocr_reader THEN <<>>
    ELSE Concat([k \in 1..Len(ocr_results) |->
           LET r == ocr_results[k]
           IN  IF r.confidence > 70 /\ Len(Invoke("Strip", <<r.text>>)) > 3 /\ Invoke("_is_transaction_text", <<r.text>>)
               THEN Invoke("_parse_ocr_text", <<r.text, page_num, r.confidence>>)
               ELSE <<>>])

\* poppler_path and ocr_reader: whether the rasterizer and the OCR engine are there
OCR_extract_transactions(pdf, poppler_path, ocr_reader) ==
    IF ~poppler_path \/ ~pdf.openable \/ ~pdf.rasterizable THEN <<>>
    ELSE Concat([p \in 1..Len(pdf.scan) |->
                   Invoke("extract_transactions_from_image", <<pdf.scan[p], p, ocr_reader>>)])

--------------------------------------------------------------------------
(* SmartDocumentProcessor: identification of the format, extraction by the *)
(* identified processor, classification of the records                    *)

\* pdf.pages, all of them
EveryPage(pdf) == pdf.pages

\* pdf.pages[:3]
SamplePages(pdf) == SubSeq(pdf.pages, 1, Least(3, Len(pdf.pages)))

\* indicator in sample_text: the sample is the text of the first pages, each
\* followed by a line break, and no indicator holds a line break
InText(pdf, indicator) ==
    \E p \in 1..Len(SamplePages(pdf)) :
        \E l \in 1..Len(pdf.pages[p]) : Contains(pdf.pages[p][l], indicator)
AnyInText(pdf, indicators) == \E k \in indicators : InText(pdf, k)

\* indicator in text.lower()
InLowerText(pdf, indicator) ==
    \E p \in 1..Len(SamplePages(pdf)) :
        \E l \in 1..Len(pdf.pages[p]) : Contains(Invoke("Lower", <<pdf.pages[p][l]>>), indicator)
AnyInLowerText(pdf, indicators) == \E k \in indicators : InLowerText(pdf, k)

\* word in filename.lower()
InFilename(pdf, word) == Contains(Invoke("Lower", <<pdf.filename>>), word)

BMOAccount_can_process(pdf) ==
    /\ AnyInText(pdf, {<<"Y","o","u","r"," ","E","v","e","r","y","d","a","y"," ","B","a","n","k","i","n","g"," ","s","t","a","t","e","m","e","n","t">>, <<"E","v","e","r","y","d","a","y"," ","B","a","n","k","i","n","g">>,
                       <<"P","r","i","m","a","r","y"," ","C","h","e","q","u","i","n","g"," ","A","c","c","o","u","n","t">>, <<"B","M","O"," ","B","a","n","k"," ","o","f"," ","M","o","n","t","r","e","a","l">>})
    /\ AnyInText(pdf, {<<"d","e","d","u","c","t","e","d","(","$",")">>, <<"a","d","d","e","d","(","$",")">>, <<"O","p","e","n","i","n","g">>, <<"C","l","o","s","i","n","g"," ","t","o","t","a","l","s">>,
                       <<"P","r","i","m","a","r","y"," ","C","h","e","q","u","i","n","g">>, <<"I","N","T","E","R","A","C"," ","e","-","T","r","a","n","s","f","e","r">>, <<"D","i","r","e","c","t"," ","D","e","p","o","s","i","t">>})
    /\ ~AnyInText(pdf, {<<"P","r","e","v","i","o","u","s"," ","B","a","l","a","n","c","e">>, <<"C","r","e","d","i","t"," ","L","i","m","i","t">>, <<"M","i","n","i","m","u","m"," ","P","a","y","m","e","n","t">>,
                        <<"P","a","y","m","e","n","t"," ","D","u","e"," ","D","a","t","e">>, <<"I","n","t","e","r","e","s","t"," ","R","a","t","e">>, <<"C","a","s","h"," ","A","d","v","a","n","c","e">>})

BMO_can_process(pdf) == AnyInText(pdf, {<<"B","M","O">>, <<"M","a","s","t","e","r","C","a","r","d">>, <<"C","a","r","d","N","u","m","b","e","r">>, <<"C","u","s","t","o","m","e","r","N","a","m","e">>})

EQ_can_process(pdf) == AnyInText(pdf, {<<"E","Q"," ","B","a","n","k">>, <<"C","a","s","h"," ","C","a","r","d">>, <<"E","q","u","i","t","a","b","l","e"," ","B","a","n","k">>})

TD_can_process(pdf) ==
    AnyInText(pdf, {<<"S","T","A","T","E","M","E","N","T"," ","O","F"," ","A","C","C","O","U","N","T">>, <<"T","D"," ","P","e","r","s","o","n","a","l">>, <<"P","r","i","m","a","r","y"," ","A","c","c","o","u","n","t">>})

TDCreditCard_can_process(pdf) ==
    /\ AnyInText(pdf, {<<"T","D"," ","C","A","S","H"," ","B","A","C","K"," ","C","A","R","D">>, <<"C","A","S","H"," ","B","A","C","K"," ","C","A","R","D">>, <<"T","D"," ","C","r","e","d","i","t"," ","C","a","r","d">>})
    /\ AnyInText(pdf, {<<"P","R","E","V","I","O","U","S"," ","S","T","A","T","E","M","E","N","T"," ","B","A","L","A","N","C","E">>, <<"M","i","n","i","m","u","m"," ","P","a","y","m","e","n","t">>, <<"C","r","e","d","i","t"," ","C","a","r","d">>,
                       <<"A","C","T","I","V","I","T","Y"," ","D","E","S","C","R","I","P","T","I","O","N">>, <<"C","a","s","h"," ","B","a","c","k"," ","D","o","l","l","a","r","s">>})

Tangerine_can_process(pdf) ==
    AnyInText(pdf, {<<"w","w","w",".","t","a","n","g","e","r","i","n","e",".","c","a">>, <<"O","r","a","n","g","e"," ","K","e","y">>, <<"T","a","n","g","e","r","i","n","e"," ","S","a","v","i","n","g","s">>})

TangerineCreditCard_can_process(pdf) ==
    /\ AnyInText(pdf, {<<"T","a","n","g","e","r","i","n","e"," ","M","o","n","e","y","-","B","a","c","k"," ","C","r","e","d","i","t"," ","C","a","r","d">>, <<"M","o","n","e","y","-","B","a","c","k"," ","C","r","e","d","i","t"," ","C","a","r","d">>,
                       <<"H","e","r","e","'","s"," ","y","o","u","r"," ","l","a","t","e","s","t"," ","s","t","a","t","e","m","e","n","t"," ","f","o","r"," ","y","o","u","r"," ","T","a","n","g","e","r","i","n","e">>})
    /\ AnyInText(pdf, {<<"C","r","e","d","i","t"," ","l","i","m","i","t">>, <<"C","a","s","h"," ","a","d","v","a","n","c","e"," ","l","i","m","i","t">>, <<"M","o","n","e","y","-","B","a","c","k"," ","R","e","w","a","r","d","s">>,
                       <<"T","r","a","n","s","a","c","t","i","o","n"," ","P","o","s","t","e","d"," ","D","e","s","c","r","i","p","t","i","o","n"," ","C","a","t","e","g","o","r","y"," ","A","m","o","u","n","t"," ","R","e","w","a","r","d">>})
    /\ ~AnyInText(pdf, {<<"T","r","a","n","s","a","c","t","i","o","n"," ","D","a","t","e">>, <<"T","r","a","n","s","a","c","t","i","o","n"," ","D","e","s","c","r","i","p","t","i","o","n">>, <<"O","r","a","n","g","e"," ","K","e","y">>,
                        <<"I","n","t","e","r","e","s","t"," ","P","a","i","d">>, <<"O","p","e","n","i","n","g"," ","B","a","l","a","n","c","e">>, <<"C","l","o","s","i","n","g"," ","B","a","l","a","n","c","e">>})

RBCBank_can_process(pdf) ==
    /\ AnyInText(pdf, {<<"R","o","y","a","l"," ","B","a","n","k"," ","o","f"," ","C","a","n","a","d","a">>, <<"R","B","C"," ","D","a","y"," ","t","o"," ","D","a","y"," ","B","a","n","k","i","n","g">>, <<"a","c","c","o","u","n","t"," ","s","t","a","t","e","m","e","n","t">>})
    /\ ~InFilename(pdf, <<"v","i","s","a">>)

RBCVisa_can_process(pdf) ==
    /\ AnyInText(pdf, {<<"R","B","C"," ","V","i","s","a">>, <<"V","i","s","a"," ","I","n","f","i","n","i","t","e">>, <<"A","v","i","o","n">>})
    /\ InFilename(pdf, <<"v","i","s","a">>)

Simplii_can_process(pdf) ==
    AnyInText(pdf, {<<"S","i","m","p","l","i","i"," ","F","i","n","a","n","c","i","a","l">>, <<"C","a","s","h"," ","B","a","c","k"," ","V","i","s","a">>, <<"s","i","m","p","l","i","i",".","c","o","m">>})

CIBCVisa_can_process(pdf) ==
    /\ AnyInText(pdf, {<<"C","I","B","C"," ","U",".","S","."," ","D","o","l","l","a","r"," ","A","v","e","n","t","u","r","a">>, <<"A","v","e","n","t","u","r","a"," ","G","o","l","d"," ","V","i","s","a"," ","C","a","r","d">>,
                       <<"C","I","B","C"," ","V","i","s","a">>, <<"U",".","S","."," ","D","o","l","l","a","r"," ","A","v","e","n","t","u","r","a">>})
    /\ AnyInText(pdf, {<<"A","m","o","u","n","t"," ","D","u","e">>, <<"M","i","n","i","m","u","m"," ","P","a","y","m","e","n","t">>, <<"C","r","e","d","i","t"," ","C","a","r","d">>, <<"A","v","e","n","t","u","r","a"," ","P","o","i","n","t","s">>,
                       <<"T","r","a","n","s"," ","P","o","s","t">>, <<"d","a","t","e"," ","d","a","t","e"," ","D","e","s","c","r","i","p","t","i","o","n"," ","A","m","o","u","n","t">>})
    /\ ~AnyInText(pdf, {<<"O","p","e","n","i","n","g"," ","B","a","l","a","n","c","e">>, <<"C","l","o","s","i","n","g"," ","B","a","l","a","n","c","e">>, <<"D","i","r","e","c","t"," ","D","e","p","o","s","i","t">>,
                        <<"A","c","c","o","u","n","t"," ","B","a","l","a","n","c","e"," ","S","u","m","m","a","r","y">>, <<"D","A","I","L","Y"," ","B","A","L","A","N","C","E">>})

CIBC_can_process(pdf) ==
    AnyInText(pdf, {<<"C","I","B","C"," ","A","c","c","o","u","n","t"," ","S","t","a","t","e","m","e","n","t">>, <<"C","I","B","C">>, <<"B","r","a","n","c","h"," ","t","r","a","n","s","i","t"," ","n","u","m","b","e","r">>})

Amex_can_process(pdf) ==
    /\ AnyInText(pdf, {<<"A","m","e","r","i","c","a","n","E","x","p","r","e","s","s">>, <<"A","m","e","x"," ","B","a","n","k"," ","o","f"," ","C","a","n","a","d","a">>, <<"S","t","a","t","e","m","e","n","t"," ","o","f"," ","A","c","c","o","u","n","t">>})
    /\ InFilename(pdf, <<"a","m","e","x">>)

ScotiaCreditIndicators == {<<"s","c","e","n","e">>, <<"c","r","e","d","i","t"," ","c","a","r","d">>, <<"m","i","n","i","m","u","m"," ","p","a","y","m","e","n","t">>, <<"c","r","e","d","i","t"," ","l","i","m","i","t">>}

ScotiaBank_can_process(pdf) ==
    \/ InFilename(pdf, <<"s","c","o","t","i","a">>) /\ InFilename(pdf, <<"b","a","n","k">>)
    \/ /\ AnyInLowerText(pdf, {<<"s","c","o","t","i","a","b","a","n","k">>, <<"s","c","o","t","i","a">>})
       /\ AnyInLowerText(pdf, {<<"d","e","p","o","s","i","t","s">>, <<"w","i","t","h","d","r","a","w","a","l","s">>, <<"m","b","-","b","i","l","l","p","a","y","m","e","n","t">>,
                               <<"s","e","r","v","i","c","e"," ","c","h","a","r","g","e">>, <<"m","b","-","t","r","a","n","s","f","e","r">>, <<"c","h","e","q","u","i","n","g">>, <<"s","a","v","i","n","g","s">>,
                               <<"b","a","l","a","n","c","e"," ","b","r","o","u","g","h","t"," ","f","o","r","w","a","r","d">>})
       /\ ~AnyInLowerText(pdf, ScotiaCreditIndicators)

Scotia_can_process(pdf) ==
    /\ AnyInLowerText(pdf, {<<"s","c","o","t","i","a">>, <<"s","c","o","t","i","a","b","a","n","k">>})
    /\ AnyInLowerText(pdf, ScotiaCreditIndicators)

Wise_can_process(pdf) ==
    \/ InFilename(pdf, <<"w","i","s","e">>)
    \/ AnyInText(pdf, {<<"W","i","s","e">>, <<"w","i","s","e",".","c","o","m">>, <<"C","r","e","d","i","t"," ","C","a","r","d"," ","S","t","a","t","e","m","e","n","t">>, <<"x","x","x","x","-","x","x","x","x","-","x","x","x","x">>})

\* self.processors: the bank_name of each processor, in the order of the registry
processors == << <<"B","M","O"," ","A","c","c","o","u","n","t">>, <<"B","M","O">>, <<"E","Q"," ","B","a","n","k">>, <<"T","D"," ","B","a","n","k">>, <<"T","D"," ","C","r","e","d","i","t"," ","C","a","r","d">>, <<"T","a","n","g","e","r","i","n","e">>,
                 <<"T","a","n","g","e","r","i","n","e"," ","C","r","e","d","i","t"," ","C","a","r","d">>, <<"R","B","C"," ","B","a","n","k">>, <<"R","B","C"," ","V","i","s","a">>, <<"S","i","m","p","l","i","i">>, <<"C","I","B","C"," ","V","i","s","a">>,
                 <<"C","I","B","C">>, <<"A","m","e","x">>, <<"S","c","o","t","i","a","b","a","n","k">>, <<"S","c","o","t","i","a"," ","C","r","e","d","i","t"," ","C","a","r","d">>, <<"W","i","s","e">> >>

can_process(bank_name, pdf) ==
    CASE bank_name = <<"B","M","O"," ","A","c","c","o","u","n","t">> -> BMOAccount_can_process(pdf)
      [] bank_name = <<"B","M","O">> -> BMO_can_process(pdf)
      [] bank_name = <<"E","Q"," ","B","a","n","k">> -> EQ_can_process(pdf)
      [] bank_name = <<"T","D"," ","B","a","n","k">> -> TD_can_process(pdf)
      [] bank_name = <<"T","D"," ","C","r","e","d","i","t"," ","C","a","r","d">> -> TDCreditCard_can_process(pdf)
      [] bank_name = <<"T","a","n","g","e","r","i","n","e">> -> Tangerine_can_process(pdf)
      [] bank_name = <<"T","a","n","g","e","r","i","n","e"," ","C","r","e","d","i","t"," ","C","a","r","d">> -> TangerineCreditCard_can_process(pdf)
      [] bank_name = <<"R","B","C"," ","B","a","n","k">> -> RBCBank_can_process(pdf)
      [] bank_name = <<"R","B","C"," ","V","i","s","a">> -> RBCVisa_can_process(pdf)
      [] bank_name = <<"S","i","m","p","l","i","i">> -> Simplii_can_process(pdf)
      [] bank_name = <<"C","I","B","C"," ","V","i","s","a">> -> CIBCVisa_can_process(pdf)
      [] bank_name = <<"C","I","B","C">> -> CIBC_can_process(pdf)
      [] bank_name = <<"A","m","e","x">> -> Amex_can_process(pdf)
      [] bank_name = <<"S","c","o","t","i","a","b","a","n","k">> -> ScotiaBank_can_process(pdf)
      [] bank_name = <<"S","c","o","t","i","a"," ","C","r","e","d","i","t"," ","C","a","r","d">> -> Scotia_can_process(pdf)
      [] bank_name = <<"W","i","s","e">> -> Wise_can_process(pdf)

\* os.path.basename: what follows the last separator of the path
basename(pdf_path) ==
    LET seps == {i \in 1..Len(pdf_path) : pdf_path[i] = "/"}
    IN  IF seps = {} THEN pdf_path
        ELSE SubSeq(pdf_path, (CHOOSE i \in seps : \A j \in seps : j <= i) + 1, Len(pdf_path))

\* the bank_name of the first processor that claims the document; <<>> for None.
\* pdf.filename is the path the document is opened by.
identify_bank(pdf) ==
    IF ~pdf.openable THEN <<>>
    ELSE LET named == [pdf EXCEPT !.filename = basename(pdf.filename)]
             claiming == {k \in 1..Len(processors) : Invoke("can_process", <<processors[k], named>>)}
         IN  IF claiming = {} THEN <<>>
             ELSE processors[CHOOSE k \in claiming : \A j \in claiming : k <= j]


\* processor.extract_transactions(pdf_path) of the identified processor.  The
\* line grammars of five formats are modelled; the documents of this model
\* are claimed by one of the five or by none.
extract_transactions(bank_name, pdf, today) ==
    CASE bank_name = <<"B","M","O">> -> Invoke("BMO_extract_transactions", <<pdf>>)
      [] bank_name = <<"E","Q"," ","B","a","n","k">> -> Invoke("EQ_extract_transactions", <<pdf, today>>)
      [] bank_name = <<"T","D"," ","B","a","n","k">> -> Invoke("TD_extract_transactions", <<pdf>>)
      [] bank_name = <<"T","a","n","g","e","r","i","n","e">> -> Invoke("Tangerine_extract_transactions", <<pdf>>)
      [] bank_name = <<"S","c","o","t","i","a","b","a","n","k">> -> Invoke("ScotiaBank_extract_transactions", <<pdf>>)

credit_card_banks ==
    { <<"B","M","O">>, <<"R","B","C"," ","V","i","s","a">>, <<"S","c","o","t","i","a"," ","C","r","e","d","i","t"," ","C","a","r","d">>, <<"A","m","e","x">>, <<"S","i","m","p","l","i","i">>, <<"W","i","s","e">>,
      <<"T","D"," ","C","r","e","d","i","t"," ","C","a","r","d">>, <<"T","a","n","g","e","r","i","n","e"," ","C","r","e","d","i","t"," ","C","a","r","d">>, <<"C","I","B","C"," ","V","i","s","a">> }

\* the sign rule without the table: every format read as a deposit account
ReadAsDeposit(bank_name) == FALSE

_is_credit_card_bank(bank_name) == bank_name \in credit_card_banks

HasKey(tx, key) == key \in DOMAIN tx

\* bank_name.lower().replace(' ', '_')
LowerUnderscored(bank_name) ==
    List([i \in 1..Len(bank_name) |->
            IF bank_name[i] = " " THEN "_"
            ELSE IF bank_name[i] \in Uppers THEN ToLower[bank_name[i]] ELSE bank_name[i]])

\* the sign rule with the record type read from the sign alone, whatever the
\* format: the flag still follows the table of credit card formats
TypeFromSignAlone(tx) ==
    LET spending == IF tx.bank \in credit_card_banks THEN tx.amount > 0 ELSE tx.amount < 0
    IN  SetKey(SetKey(tx, "transaction_type", IF tx.amount < 0 THEN <<"d","e","b","i","t">> ELSE <<"c","r","e","d","i","t">>),
                "is_spending", spending)

\* the sign rule of the loop of process_document
DirectionBySign(tx) ==
    LET spending == IF Invoke("_is_credit_card_bank", <<tx.bank>>) THEN tx.amount > 0 ELSE tx.amount < 0
    IN  SetKey(SetKey(tx, "transaction_type", IF spending THEN <<"d","e","b","i","t">> ELSE <<"c","r","e","d","i","t">>),
                "is_spending", spending)

\* the sign rule applied to every record, classified by its extractor or not
SignOverrides(tx) == DirectionBySign(tx)

\* the classification step of the loop of process_document
Classify(tx) ==
    IF ~HasKey(tx, "transaction_type") \/ ~HasKey(tx, "is_spending")
    THEN DirectionBySign(tx) ELSE tx

\* one iteration of the loop of process_document
Standardize(tx) ==
    LET classified == Classify(tx)
        confidence == IF HasKey(tx, "confidence") THEN tx.confidence ELSE 0
    IN  SetKey(SetKey(SetKey(classified,
            "abs_amount", Abs(tx.amount)),
            "processing_method", LowerUnderscored(tx.bank) \o <<"_","p","r","o","c","e","s","s","o","r">>),
            "confidence_level", IF confidence >= 90 THEN <<"h","i","g","h">> ELSE <<"m","e","d","i","u","m">>)

\* SmartDocumentProcessor.process_document: the result for a given list of
\* extracted records (none of the modelled steps raises)
SmartResult(bank_name, extracted_transactions) ==
    IF bank_name = <<>>
    THEN [processing_method |-> <<"u","n","i","d","e","n","t","i","f","i","e","d">>, transactions |-> <<>>,
          confidence |-> <<"l","o","w">>, error |-> <<"N","o"," ","s","u","i","t","a","b","l","e"," ","p","r","o","c","e","s","s","o","r"," ","f","o","u","n","d">>]
    ELSE
    LET transactions == List([i \in 1..Len(extracted_transactions) |->
                                Standardize(extracted_transactions[i])])
    IN  [processing_method |-> bank_name \o <<"_","p","r","o","c","e","s","s","o","r">>,
         transactions |-> transactions,
         confidence |-> <<"h","i","g","h">>,
         bank |-> bank_name,
         transaction_count |-> Len(transactions),
         debit_count |-> Cardinality({i \in 1..Len(transactions) :
                                        transactions[i].transaction_type = <<"d","e","b","i","t">>}),
         credit_count |-> Cardinality({i \in 1..Len(transactions) :
                                         transactions[i].transaction_type = <<"c","r","e","d","i","t">>}),
         spending_transactions |-> SelectSeq(transactions, LAMBDA tx : tx.is_spending)]

\* process_document as the model observes it: the records the identified
\* processor extracted, and the result returned
SmartProcessed(bank_name, extracted_transactions) ==
    [extracted |-> extracted_transactions,
     result |-> SmartResult(bank_name, extracted_transactions)]

SmartDocumentProcessor_process_document(pdf, today) ==
    LET processor == Invoke("identify_bank", <<pdf>>)
    IN  IF processor = <<>> THEN SmartProcessed(<<>>, <<>>)
        ELSE SmartProcessed(processor, Invoke("extract_transactions", <<processor, pdf, today>>))

--------------------------------------------------------------------------
(* DocumentProcessor: the kind of the document decides the extraction     *)

NewLine == <<"\n">>
TextOf(page) == JoinWith(page, NewLine)                  \* page.extract_text()

\* len(text.strip()) of the text of a page
StrippedLength(page) ==
    LET text == TextOf(page)
        idx == {i \in 1..Len(text) : text[i] \notin Space \cup {"\n"}}
    IN  IF idx = {} THEN 0
        ELSE (CHOOSE i \in idx : \A j \in idx : i >= j)
             - (CHOOSE i \in idx : \A j \in idx : i <= j) + 1

RECURSIVE SumOf(_)
SumOf(ns) == IF Len(ns) = 0 THEN 0 ELSE Head(ns) + SumOf(Tail(ns))

\* the classes when an average on a threshold belongs to the outer class
DetectInclusive(pdf) ==
    IF ~pdf.openable THEN <<"m","i","x","e","d">>
    ELSE
    LET sample_pages == Least(3, Len(pdf.pages))
        total_text == SumOf([p \in 1..sample_pages |-> StrippedLength(pdf.pages[p])])
    IN  IF sample_pages > 0 /\ total_text >= 500 * sample_pages THEN <<"t","e","x","t","_","b","a","s","e","d">>
        ELSE IF sample_pages = 0 \/ total_text <= 100 * sample_pages THEN <<"s","c","a","n","n","e","d","_","i","m","a","g","e">>
        ELSE <<"m","i","x","e","d">>

\* avg_text = total_text / sample_pages, compared without the division
_detect_document_type(pdf) ==
    IF ~pdf.openable THEN <<"m","i","x","e","d">>
    ELSE
    LET sample_pages == Least(3, Len(pdf.pages))
        total_text == SumOf([p \in 1..sample_pages |-> StrippedLength(pdf.pages[p])])
    IN  IF sample_pages > 0 /\ total_text > 500 * sample_pages THEN <<"t","e","x","t","_","b","a","s","e","d">>
        ELSE IF sample_pages = 0 \/ total_text < 100 * sample_pages THEN <<"s","c","a","n","n","e","d","_","i","m","a","g","e">>
        ELSE <<"m","i","x","e","d">>

_process_text_based_pdf(pdf) ==
    [processing_method |-> <<"t","e","x","t","_","e","x","t","r","a","c","t","i","o","n">>,
     transactions |-> Invoke("Text_extract_transactions", <<pdf>>),
     confidence |-> <<"h","i","g","h">>, processing_time |-> <<"f","a","s","t">>]

_process_scanned_pdf(pdf, poppler_path, ocr_reader) ==
    [processing_method |-> <<"o","c","r","_","e","x","t","r","a","c","t","i","o","n">>,
     transactions |-> Invoke("OCR_extract_transactions", <<pdf, poppler_path, ocr_reader>>),
     confidence |-> <<"m","e","d","i","u","m">>, processing_time |-> <<"s","l","o","w">>]

\* the page loop of _process_mixed_pdf
MixedPage(pdf, p, poppler_path, ocr_reader) ==
    IF pdf.pages[p] # <<>> /\ StrippedLength(pdf.pages[p]) > 200
    THEN Invoke("extract_transactions_from_text", <<pdf.pages[p], p>>)
    ELSE IF poppler_path
    THEN Invoke("extract_transactions_from_image", <<pdf.scan[p], p, ocr_reader>>)
    ELSE <<>>

\* the page loop alone: a document that cannot be opened has no page
MixedPagesOnly(pdf, poppler_path, ocr_reader) ==
    [processing_method |-> <<"h","y","b","r","i","d","_","e","x","t","r","a","c","t","i","o","n">>,
     transactions |-> IF ~pdf.openable THEN <<>>
                      ELSE Concat([p \in 1..Len(pdf.pages) |->
                                     MixedPage(pdf, p, poppler_path, ocr_reader)]),
     confidence |-> <<"m","e","d","i","u","m">>, processing_time |-> <<"m","e","d","i","u","m">>]

\* the pages that _process_mixed_pdf hands to the rasterizer
Rasterized(pdf, poppler_path) ==
    {p \in 1..Len(pdf.pages) :
        poppler_path /\ ~(pdf.pages[p] # <<>> /\ StrippedLength(pdf.pages[p]) > 200)}

\* one try block holds the whole loop: an exception on a page leaves the
\* result of the except clause
_process_mixed_pdf(pdf, poppler_path, ocr_reader) ==
    IF ~pdf.openable
    THEN [processing_method |-> <<"h","y","b","r","i","d","_","f","a","i","l","e","d">>, transactions |-> <<>>,
          confidence |-> <<"l","o","w">>, error |-> <<"c","a","n","n","o","t"," ","o","p","e","n">>]
    ELSE IF ~pdf.rasterizable /\ Rasterized(pdf, poppler_path) # {}
    THEN [processing_method |-> <<"h","y","b","r","i","d","_","f","a","i","l","e","d">>, transactions |-> <<>>,
          confidence |-> <<"l","o","w">>, error |-> <<"c","a","n","n","o","t"," ","r","a","s","t","e","r","i","z","e">>]
    ELSE [processing_method |-> <<"h","y","b","r","i","d","_","e","x","t","r","a","c","t","i","o","n">>,
          transactions |-> Concat([p \in 1..Len(pdf.pages) |->
                                     MixedPage(pdf, p, poppler_path, ocr_reader)]),
          confidence |-> <<"m","e","d","i","u","m">>, processing_time |-> <<"m","e","d","i","u","m">>]

DocumentProcessor_process_document(pdf, poppler_path, ocr_reader) ==
    LET doc_type == Invoke("_detect_document_type", <<pdf>>)
    IN  IF doc_type = <<"t","e","x","t","_","b","a","s","e","d">> THEN Invoke("_process_text_based_pdf", <<pdf>>)
        ELSE IF doc_type = <<"s","c","a","n","n","e","d","_","i","m","a","g","e">>
        THEN Invoke("_process_scanned_pdf", <<pdf, poppler_path, ocr_reader>>)
        ELSE Invoke("_process_mixed_pdf", <<pdf, poppler_path, ocr_reader>>)

--------------------------------------------------------------------------
(* Batches: DocumentProcessor.process_multiple_pdfs and, in the            *)
(* application, process_uploaded_files.  A data frame is the sequence of   *)
(* its rows; a row is a record, a column it has no value for is left out.  *)

\* the rows put in front of the list
Prepend(all_transactions, rows) == rows \o all_transactions

\* all_transactions.extend(rows)
Extend(all_transactions, rows) == all_transactions \o rows

\* the body of the loop of process_multiple_pdfs: the transactions of one
\* document, each with its file, the method and the confidence of the result
BatchRows(pdf, poppler_path, ocr_reader) ==
    LET r == Invoke("DocumentProcessor_process_document", <<pdf, poppler_path, ocr_reader>>)
    IN  List([i \in 1..Len(r.transactions) |->
                SetKey(SetKey(SetKey(r.transactions[i],
                    "source_file", basename(pdf.filename)),
                    "processing_method", r.processing_method),
                    "confidence_level", r.confidence)])

\* the columns process_multiple_pdfs requires, with the value of a column
\* that no row has: 'N/A', or 0.0 for the amount
required_columns ==
    << <<"date", <<"N","/","A">>>>, <<"description", <<"N","/","A">>>>, <<"amount", 0>>,
       <<"source_file", <<"N","/","A">>>>, <<"processing_method", <<"N","/","A">>>> >>

RECURSIVE WithColumns(_, _)
WithColumns(df, cols) ==
    IF cols = <<>> THEN df
    ELSE LET col == Head(cols)
             filled == IF \E i \in 1..Len(df) : HasKey(df[i], col[1]) THEN df
                       ELSE List([i \in 1..Len(df) |-> SetKey(df[i], col[1], col[2])])
         IN  WithColumns(filled, Tail(cols))

\* what process_multiple_pdfs returns once the loop is over
BatchFrame(all_transactions) ==
    IF all_transactions = <<>> THEN <<>>
    ELSE Invoke("WithColumns", <<all_transactions, required_columns>>)

\* CategoryManager._get_default_categories: the keywords of each category, in
\* the order of the dictionary (the names, colours and icons are left out)
default_categories ==
    << <<<<"f","o","o","d","_","d","i","n","i","n","g">>, <<<<"r","e","s","t","a","u","r","a","n","t">>, <<"m","c","d","o","n","a","l","d">>, <<"s","t","a","r","b","u","c","k","s">>, <<"t","i","m"," ","h","o","r","t","o","n","s">>, <<"s","u","b","w","a","y">>,
                          <<"p","i","z","z","a">>, <<"c","o","f","f","e","e">>, <<"f","o","o","d">>, <<"d","i","n","i","n","g">>, <<"c","a","f","e">>, <<"b","i","s","t","r","o">>, <<"g","r","i","l","l">>,
                          <<"k","i","t","c","h","e","n">>, <<"b","u","r","g","e","r">>, <<"t","a","c","o">>, <<"s","u","s","h","i">>>> >>,
       <<<<"g","r","o","c","e","r","i","e","s">>, <<<<"w","a","l","m","a","r","t">>, <<"s","u","p","e","r","s","t","o","r","e">>, <<"l","o","b","l","a","w","s">>, <<"m","e","t","r","o">>, <<"s","o","b","e","y","s">>, <<"c","o","s","t","c","o">>,
                        <<"g","r","o","c","e","r","y">>, <<"s","u","p","e","r","m","a","r","k","e","t">>, <<"f","o","o","d"," ","b","a","s","i","c","s">>, <<"n","o"," ","f","r","i","l","l","s">>, <<"f","r","e","s","h","c","o">>>> >>,
       <<<<"g","a","s","_","f","u","e","l">>, <<<<"s","h","e","l","l">>, <<"e","s","s","o">>, <<"p","e","t","r","o">>, <<"c","h","e","v","r","o","n">>, <<"g","a","s">>, <<"f","u","e","l">>, <<"g","a","s","o","l","i","n","e">>,
                       <<"s","t","a","t","i","o","n">>, <<"p","u","m","p">>>> >>,
       <<<<"s","h","o","p","p","i","n","g">>, <<<<"a","m","a","z","o","n">>, <<"t","a","r","g","e","t">>, <<"b","e","s","t"," ","b","u","y">>, <<"c","a","n","a","d","i","a","n"," ","t","i","r","e">>, <<"h","o","m","e"," ","d","e","p","o","t">>, <<"i","k","e","a">>,
                       <<"w","a","l","m","a","r","t">>, <<"s","h","o","p","p","i","n","g">>, <<"s","t","o","r","e">>, <<"r","e","t","a","i","l">>>> >>,
       <<<<"e","n","t","e","r","t","a","i","n","m","e","n","t">>, <<<<"n","e","t","f","l","i","x">>, <<"s","p","o","t","i","f","y">>, <<"c","i","n","e","m","a">>, <<"m","o","v","i","e">>, <<"t","h","e","a","t","e","r">>,
                            <<"e","n","t","e","r","t","a","i","n","m","e","n","t">>, <<"g","a","m","i","n","g">>, <<"x","b","o","x">>, <<"p","l","a","y","s","t","a","t","i","o","n">>, <<"s","t","e","a","m">>>> >>,
       <<<<"b","i","l","l","s","_","u","t","i","l","i","t","i","e","s">>, <<<<"h","y","d","r","o">>, <<"e","l","e","c","t","r","i","c","i","t","y">>, <<"g","a","s"," ","b","i","l","l">>, <<"w","a","t","e","r">>, <<"i","n","t","e","r","n","e","t">>, <<"p","h","o","n","e">>,
                              <<"r","o","g","e","r","s">>, <<"b","e","l","l">>, <<"t","e","l","u","s">>, <<"u","t","i","l","i","t","y">>, <<"b","i","l","l">>>> >>,
       <<<<"h","e","a","l","t","h","c","a","r","e">>, <<<<"p","h","a","r","m","a","c","y">>, <<"m","e","d","i","c","a","l">>, <<"d","o","c","t","o","r">>, <<"h","o","s","p","i","t","a","l">>, <<"h","e","a","l","t","h">>, <<"d","e","n","t","a","l">>,
                         <<"v","i","s","i","o","n">>, <<"p","r","e","s","c","r","i","p","t","i","o","n">>, <<"c","l","i","n","i","c">>>> >>,
       <<<<"f","i","n","a","n","c","i","a","l","_","s","e","r","v","i","c","e","s">>, <<<<"b","a","n","k">>, <<"a","t","m">>, <<"f","e","e">>, <<"i","n","t","e","r","e","s","t">>, <<"t","r","a","n","s","f","e","r">>, <<"p","a","y","m","e","n","t">>,
                                 <<"f","i","n","a","n","c","i","a","l">>, <<"c","r","e","d","i","t">>, <<"l","o","a","n">>, <<"m","o","r","t","g","a","g","e">>>> >>,
       <<<<"t","r","a","n","s","p","o","r","t","a","t","i","o","n">>, <<<<"u","b","e","r">>, <<"l","y","f","t">>, <<"t","a","x","i">>, <<"t","r","a","n","s","i","t">>, <<"b","u","s">>, <<"s","u","b","w","a","y">>, <<"t","r","a","i","n">>,
                             <<"p","a","r","k","i","n","g">>, <<"t","r","a","n","s","p","o","r","t">>>> >>,
       <<<<"o","t","h","e","r">>, <<<<"m","i","s","c">>, <<"o","t","h","e","r">>, <<"u","n","k","n","o","w","n">>>> >> >>

\* CategoryManager.categorize_transaction: the first keyword, in the order of
\* the categories and of their keywords, that the description holds
categorize_transaction(description) ==
    LET description_lower == Invoke("Lower", <<description>>)
        hits == {c \in 1..Len(default_categories) :
                   \E k \in 1..Len(default_categories[c][2]) :
                       Contains(description_lower, default_categories[c][2][k])}
    IN  IF hits = {}
        THEN [category |-> <<"o","t","h","e","r">>, matched_keyword |-> <<"n","o","_","m","a","t","c","h">>, confidence |-> 10]
        ELSE LET c == Lowest(hits)
                 k == Lowest({k \in 1..Len(default_categories[c][2]) :
                                Contains(description_lower, default_categories[c][2][k])})
             IN  [category |-> default_categories[c][1],
                  matched_keyword |-> default_categories[c][2][k], confidence |-> 90]

\* the row of a transaction once it is categorized
Categorized(tx) ==
    LET cat_result == Invoke("categorize_transaction", <<tx.description>>)
        row == SetKey(SetKey(SetKey(tx,
                   "category", cat_result.category),
                   "matched_keyword", cat_result.matched_keyword),
                   "confidence", cat_result.confidence)
    IN  IF HasKey(row, "Description") THEN row
        ELSE SetKey(row, "Description", tx.description)

\* the body of the loop of process_uploaded_files on the file written to
\* temp_<name>: the rows it adds and its entry of processing_results.  The
\* frame of a result without transactions has no column, and columns[0]
\* raises IndexError, which the loop reports as the status of the file.
UploadStep(pdf, today) ==
    LET temp == [pdf EXCEPT !.filename = <<"t","e","m","p","_">> \o pdf.filename]
        r == Invoke("SmartDocumentProcessor_process_document", <<temp, today>>).result
    IN  IF r.transactions = <<>>
        THEN [rows |-> <<>>,
              entry |-> [filename |-> pdf.filename, bank |-> <<"U","n","k","n","o","w","n">>, transactions |-> 0,
                         status |-> <<"E","r","r","o","r",":"," ","i","n","d","e","x"," ","0"," ","i","s"," ","o","u","t"," ","o","f"," ","b","o","u","n","d","s"," ","f","o","r"," ","a","x","i","s"," ","0"," ","w","i","t","h"," ","s","i","z","e"," ","0">>]]
        ELSE [rows |-> List([i \in 1..Len(r.transactions) |-> Invoke("Categorized", <<r.transactions[i]>>)]),
              entry |-> [filename |-> pdf.filename,
                         bank |-> IF HasKey(r, "bank") THEN r.bank ELSE <<"U","n","k","n","o","w","n">>,
                         transactions |-> Len(r.transactions), status |-> <<"S","u","c","c","e","s","s">>]]

--------------------------------------------------------------------------
(* The application of a function or method by its name.                    *)

Invoke(fn, args) ==
    IF Len(args) < 0 THEN <<>>
    ELSE CASE fn = "Strip" -> Strip(args[1])
           [] fn = "SplitWs" -> SplitWs(args[1])
           [] fn = "Lower" -> Lower(args[1])
           [] fn = "MatchAt" -> MatchAt(args[1], args[2], args[3])
           [] fn = "Match" -> Match(args[1], args[2])
           [] fn = "SearchFrom" -> SearchFrom(args[1], args[2], args[3])
           [] fn = "Search" -> Search(args[1], args[2])
           [] fn = "FindAll" -> FindAll(args[1], args[2])
           [] fn = "Sub" -> Sub(args[1], args[2], args[3])
           [] fn = "AnySearch" -> AnySearch(args[1], args[2])
           [] fn = "FirstSearch" -> FirstSearch(args[1], args[2], args[3])
           [] fn = "DateFormats" -> DateFormats
           [] fn = "Strptime" -> Strptime(args[1], args[2])
           [] fn = "ParseFloat" -> ParseFloat(args[1])
           [] fn = "clean_amount" -> clean_amount(args[1])
           [] fn = "clean_date" -> clean_date(args[1])
           [] fn = "_is_bmo_transaction" -> _is_bmo_transaction(args[1])
           [] fn = "_parse_bmo_transaction" -> _parse_bmo_transaction(args[1], args[2])
           [] fn = "BMO_extract_transactions" -> BMO_extract_transactions(args[1])
           [] fn = "_is_eq_transaction" -> _is_eq_transaction(args[1])
           [] fn = "_parse_eq_transaction" -> _parse_eq_transaction(args[1], args[2], args[3])
           [] fn = "EQ_extract_transactions" -> EQ_extract_transactions(args[1], args[2])
           [] fn = "_is_td_transaction" -> _is_td_transaction(args[1])
           [] fn = "_parse_td_transaction" -> _parse_td_transaction(args[1], args[2], args[3])
           [] fn = "TD_extract_transactions" -> TD_extract_transactions(args[1])
           [] fn = "_is_tangerine_transaction" -> _is_tangerine_transaction(args[1])
           [] fn = "_parse_tangerine_date" -> _parse_tangerine_date(args[1])
           [] fn = "TangerineRecord" -> TangerineRecord(args[1], args[2], args[3], args[4], args[5])
           [] fn = "_is_complete_tangerine_transaction" -> _is_complete_tangerine_transaction(args[1])
           [] fn = "_parse_tangerine_transaction" -> _parse_tangerine_transaction(args[1], args[2])
           [] fn = "_parse_tangerine_multiline_transaction" -> _parse_tangerine_multiline_transaction(args[1], args[2], args[3])
           [] fn = "Tangerine_extract_transactions" -> Tangerine_extract_transactions(args[1])
           [] fn = "_parse_scotia_bank_date" -> _parse_scotia_bank_date(args[1])
           [] fn = "_is_scotia_bank_transaction" -> _is_scotia_bank_transaction(args[1])
           [] fn = "_parse_scotia_bank_transaction" -> _parse_scotia_bank_transaction(args[1], args[2], args[3])
           [] fn = "ScotiaBank_extract_transactions" -> ScotiaBank_extract_transactions(args[1])
           [] fn = "_parse_rbc_date" -> _parse_rbc_date(args[1])
           [] fn = "_parse_rbc_transaction_line" -> _parse_rbc_transaction_line(args[1], args[2], args[3])
           [] fn = "RBCLines" -> RBCLines(args[1], args[2], args[3], args[4])
           [] fn = "RBCBank_extract_transactions" -> RBCBank_extract_transactions(args[1])
           [] fn = "_parse_cibc_date" -> _parse_cibc_date(args[1])
           [] fn = "_parse_cibc_transaction_line" -> _parse_cibc_transaction_line(args[1], args[2], args[3])
           [] fn = "CIBCLines" -> CIBCLines(args[1], args[2], args[3], args[4])
           [] fn = "CIBC_extract_transactions" -> CIBC_extract_transactions(args[1])
           [] fn = "date_patterns" -> date_patterns
           [] fn = "amount_patterns" -> amount_patterns
           [] fn = "_preprocess_text" -> _preprocess_text(args[1])
           [] fn = "_extract_date" -> _extract_date(args[1])
           [] fn = "_extract_amount" -> _extract_amount(args[1])
           [] fn = "_extract_description" -> _extract_description(args[1], args[2], args[3])
           [] fn = "_parse_transaction_line" -> _parse_transaction_line(args[1], args[2])
           [] fn = "_is_table_like_line" -> _is_table_like_line(args[1])
           [] fn = "_detect_table_regions" -> _detect_table_regions(args[1])
           [] fn = "_score_transaction_table" -> _score_transaction_table(args[1])
           [] fn = "_identify_transaction_tables" -> _identify_transaction_tables(args[1])
           [] fn = "_is_header_line" -> _is_header_line(args[1])
           [] fn = "_is_summary_line" -> _is_summary_line(args[1])
           [] fn = "_extract_from_table_region" -> _extract_from_table_region(args[1], args[2])
           [] fn = "_extract_multiline_transactions" -> _extract_multiline_transactions(args[1], args[2])
           [] fn = "_extract_transaction_patterns" -> _extract_transaction_patterns(args[1], args[2])
           [] fn = "extract_transactions_from_text" -> extract_transactions_from_text(args[1], args[2])
           [] fn = "Text_extract_transactions" -> Text_extract_transactions(args[1])
           [] fn = "ocr_date_patterns" -> ocr_date_patterns
           [] fn = "ocr_amount_patterns" -> ocr_amount_patterns
           [] fn = "_is_transaction_text" -> _is_transaction_text(args[1])
           [] fn = "_parse_ocr_text" -> _parse_ocr_text(args[1], args[2], args[3])
           [] fn = "extract_transactions_from_image" -> extract_transactions_from_image(args[1], args[2], args[3])
           [] fn = "OCR_extract_transactions" -> OCR_extract_transactions(args[1], args[2], args[3])
           [] fn = "can_process" -> can_process(args[1], args[2])
           [] fn = "identify_bank" -> identify_bank(args[1])
           [] fn = "extract_transactions" -> extract_transactions(args[1], args[2], args[3])
           [] fn = "_is_credit_card_bank" -> _is_credit_card_bank(args[1])
           [] fn = "_detect_document_type" -> _detect_document_type(args[1])
           [] fn = "_process_text_based_pdf" -> _process_text_based_pdf(args[1])
           [] fn = "_process_scanned_pdf" -> _process_scanned_pdf(args[1], args[2], args[3])
           [] fn = "_process_mixed_pdf" -> _process_mixed_pdf(args[1], args[2], args[3])
           [] fn = "SmartDocumentProcessor_process_document" -> SmartDocumentProcessor_process_document(args[1], args[2])
           [] fn = "DocumentProcessor_process_document" -> DocumentProcessor_process_document(args[1], args[2], args[3])
           [] fn = "BatchRows" -> BatchRows(args[1], args[2], args[3])
           [] fn = "WithColumns" -> WithColumns(args[1], args[2])
           [] fn = "BatchFrame" -> BatchFrame(args[1])
           [] fn = "categorize_transaction" -> categorize_transaction(args[1])
           [] fn = "Categorized" -> Categorized(args[1])
           [] fn = "UploadStep" -> UploadStep(args[1], args[2])
           [] fn = "_is_td_credit_transaction" -> _is_td_credit_transaction(args[1])
           [] fn = "_parse_td_credit_date" -> _parse_td_credit_date(args[1])
           [] fn = "_parse_td_credit_transaction" -> _parse_td_credit_transaction(args[1], args[2])
           [] fn = "TDCreditLines" -> TDCreditLines(args[1], args[2], args[3], args[4])
           [] fn = "TDCreditCard_extract_transactions" -> TDCreditCard_extract_transactions(args[1])
           [] fn = "_is_tangerine_credit_transaction" -> _is_tangerine_credit_transaction(args[1])
           [] fn = "_parse_tangerine_credit_date" -> _parse_tangerine_credit_date(args[1])
           [] fn = "_parse_tangerine_credit_transaction" -> _parse_tangerine_credit_transaction(args[1], args[2])
           [] fn = "TangerineCreditCard_extract_transactions" -> TangerineCreditCard_extract_transactions(args[1])
           [] fn = "_is_cibc_visa_transaction" -> _is_cibc_visa_transaction(args[1])
           [] fn = "_parse_cibc_visa_date" -> _parse_cibc_visa_date(args[1])
           [] fn = "_parse_cibc_visa_multiline_transaction" -> _parse_cibc_visa_multiline_transaction(args[1], args[2], args[3])
           [] fn = "CIBCVisaIteration" -> CIBCVisaIteration(args[1], args[2], args[3], args[4])
           [] fn = "TangerineIteration" -> TangerineIteration(args[1], args[2], args[3], args[4])

--------------------------------------------------------------------------
(* Inputs of the normalizer                                                *)

AmountPrefixes == { <<>>, <<"-">>, <<"(">>, <<"$">>, <<"-","$">>, <<"(","$">>, <<"$","-">>, <<"+">>, <<" ","-">>, <<"-","-">> }
AmountBodies == { <<"1","2",".","0","0">>, <<"1",",","2","3","4",".","5","6">>, <<"4","5",".","0","0">>, <<"3",".","2","0">>, <<"0",".","0","0">>, <<"7">>, <<"1",".","2",".","3">>, <<>> }
AmountSuffixes == { <<>>, <<")">>, <<"-">>, <<" ">> }
AmountInputs == { p \o b \o x : p \in AmountPrefixes, b \in AmountBodies,
                                x \in AmountSuffixes }

DateMonths == { <<"S","e","p">>, <<"F","e","b">>, <<"D","E","C">>, <<"S","e","p","t">>, <<"n","o","v">>, <<"X","y","z">> }
DateSeps == { <<" ">>, <<".">>, <<"-">>, <<>>, <<" "," ">> }
DateDays == { <<"3">>, <<"0","3">>, <<"2","8">>, <<"2","9">>, <<"3","0">>, <<"3","1">>, <<"9","9">> }
DateTails == { <<>>, <<" ","2","0","2","4">>, <<" ","2","0","2","5">>, <<",">>, <<" ">>, <<"x">> }
DateNums == { <<"9">>, <<"0","9">>, <<"1","2">>, <<"1","3">>, <<"2","8">>, <<"3","1">> }
DateNumTails == { <<>>, <<"/","2","0","2","4">>, <<"/","2","0","2","5">>, <<"/","2","0","2","4","x">>, <<"/","2","4">> }
DateInputs ==
    { m \o s \o d \o t : m \in DateMonths, s \in DateSeps, d \in DateDays, t \in DateTails }
    \cup { a \o <<"/">> \o b \o t : a \in DateNums, b \in DateNums, t \in DateNumTails }
    \cup { d \o <<" ">> \o m : d \in DateDays, m \in DateMonths }
    \cup { <<>>, <<"h","e","l","l","o"," ","w","o","r","l","d">>, <<"a","b","c","d"," "," ","x","y","z">>, <<"0","9","-","2","8">>, <<"U","n","k","n","o","w","n">> }

--------------------------------------------------------------------------
(* The normalizer as a state machine: one call, and clean_date re-applied  *)

\* the normalizer is a pure function of its argument: no document is involved
NoDocument ==
    [filename |-> <<>>, openable |-> FALSE, rasterizable |-> FALSE, pages |-> <<>>, scan |-> <<>>]
Unused ==
    /\ document = NoDocument
    /\ now = [year |-> 2025, month |-> 6]
    /\ self_poppler_path = FALSE
    /\ self_ocr_reader = FALSE
    /\ extracted = <<>>
    /\ result = NoValue

InitNorm ==
    /\ call \in [fn : {"clean_amount"}, arg : AmountInputs]
                \cup [fn : {"clean_date"}, arg : DateInputs]
    /\ pc = "call"
    /\ ret = NoValue
    /\ ret2 = NoValue
    /\ Unused

CleanAmount ==
    /\ pc = "call" /\ call.fn = "clean_amount"
    /\ ret' = Invoke("clean_amount", <<call.arg>>)
    /\ pc' = "returned"
    /\ UNCHANGED <<call, ret2, document, now, self_poppler_path, self_ocr_reader, extracted, result>>

CleanDate ==
    /\ pc = "call" /\ call.fn = "clean_date"
    /\ ret' = Invoke("clean_date", <<call.arg>>)
    /\ pc' = "returned"
    /\ UNCHANGED <<call, ret2, document, now, self_poppler_path, self_ocr_reader, extracted, result>>

CleanDateAgain ==
    /\ pc = "returned" /\ call.fn = "clean_date"
    /\ ret2' = Invoke("clean_date", <<ret>>)
    /\ pc' = "renormalized"
    /\ UNCHANGED <<call, ret, document, now, self_poppler_path, self_ocr_reader, extracted, result>>

NextNorm == CleanAmount \/ CleanDate \/ CleanDateAgain

SpecNorm == InitNorm /\ [][NextNorm]_vars

--------------------------------------------------------------------------
(* Documents.  A PDF is its file name, whether pdfplumber can open it, the *)
(* text of each page as its list of lines (<<>> when the page has no text) *)
(* and, for each page, what the OCR engine reads on the image of the page: *)
(* a list of readings, each a text and a confidence in percent.            *)
(* pdf.rasterizable is whether pdf2image.convert_from_path succeeds on it. *)

Pdf(filename, pages, scan) ==
    [filename |-> filename, openable |-> TRUE, rasterizable |-> TRUE,
     pages |-> pages, scan |-> scan]

\* a statement of one page of text
Statement(filename, lines) == Pdf(filename, <<lines>>, << <<>> >>)

\* the pages of one or two lines of a menu, under the heading of a format
MaxBody == 2
Bodies(menu) == UNION { [1..n -> menu] : n \in 1..MaxBody }

BMOMenu == { <<"N","o","v",".","3"," ","N","o","v",".","8"," ","C","O","F","F","E","E"," ","S","H","O","P"," ","1","2",".","0","0">>, <<"N","o","v",".","3"," ","N","o","v",".","8"," ","1","2",".","0","0">>, <<"N","o","v",".","3"," ","N","o","v",".","8"," ","S","T","O","R","E"," ","5","0",".","0","0">>,
             <<"N","o","v",".","3"," ","N","o","v",".","8"," ","R","E","F","U","N","D"," ","5",".","0","0"," ","C","R">>, <<"X","y","z",".","3"," ","N","o","v",".","8"," ","S","T","O","R","E"," ","1",",","0","0","4",".","0","0">>,
             <<"N","o","v",".","3"," ","N","o","v",".","8"," ","A","D","J","U","S","T","M","E","N","T"," ","0",".","0","0">> }
BMODocuments ==
    { Statement(<<"b","m","o",".","p","d","f">>, <<<<"B","M","O"," ","M","a","s","t","e","r","C","a","r","d">>>> \o body) : body \in Bodies(BMOMenu) }

EQMenu == { <<"S","e","p"," ","2","8"," ","P","R","E","S","T","O"," ","-","$","5","0",".","0","0">>, <<"S","e","p"," ","2","9"," ","P","A","Y","R","O","L","L"," ","$","1",",","1","0","0",".","0","0">>, <<"S","e","p"," ","2","8"," "," ","$","5",".","6","0">>,
            <<"O","c","t"," ","0","1"," ","O","p","e","n","i","n","g"," ","B","a","l","a","n","c","e"," ","$","5",".","0","0">>, <<"F","e","b"," ","2","9"," ","C","O","F","F","E","E"," ","$","4",".","5","0">> }
EQDocuments ==
    { Statement(<<"e","q",".","p","d","f">>, <<<<"E","Q"," ","B","a","n","k">>>> \o body) : body \in Bodies(EQMenu) }

TDMenu == { <<"0","7","/","0","2"," ","P","A","Y","R","O","L","L"," ","3",",","7","5","0",".","0","0">>, <<"0","7","/","0","3"," ","R","E","N","T"," ","1",",","2","0","0",".","0","0">>, <<"0","7","/","0","4"," ","5",".","0","0">> }
TDDocuments ==
    { Statement(<<"t","d",".","p","d","f">>, <<<<"T","D"," ","P","e","r","s","o","n","a","l">>, section>> \o body) :
        section \in {<<"C","r","e","d","i","t","s">>, <<"D","e","b","i","t","s">>}, body \in Bodies(TDMenu) }

\* statements whose section headers stand anywhere among the lines, with
\* descriptions that name the other direction
TDSectionMenu == { <<"C","r","e","d","i","t","s">>, <<"D","e","b","i","t","s">>, <<"D","A","I","L","Y"," ","A","C","C","O","U","N","T"," ","A","C","T","I","V","I","T","Y">>,
                   <<"0","7","/","0","2"," ","D","E","P","O","S","I","T"," ","3",",","7","5","0",".","0","0">>, <<"0","7","/","0","3"," ","W","I","T","H","D","R","A","W","A","L"," ","F","E","E"," ","1",",","2","0","0",".","0","0">> }
TDSectionDocuments ==
    { Statement(<<"t","d",".","p","d","f">>, <<<<"T","D"," ","P","e","r","s","o","n","a","l">>, first>> \o body) :
        first \in TDSectionMenu, body \in Bodies(TDSectionMenu) }

TangerineMenu == { <<"0","1"," ","O","c","t"," ","2","0","2","1"," ","O","p","e","n","i","n","g"," ","B","a","l","a","n","c","e"," ","5",".","0","0"," ","6","6","4",".","5","4">>,
                   <<"0","1"," ","O","c","t"," ","2","0","2","1"," ","O","p","e","n","i","n","g"," ","B","a","l","a","n","c","e"," ","0",".","0","0"," ","6","6","4",".","5","4">>,
                   <<"1","5"," ","O","c","t"," ","2","0","2","1"," ","I","n","t","e","r","e","s","t"," ","P","a","i","d"," ","0",".","5","4"," ","6","6","5",".","0","8">>,
                   <<"2","0"," ","O","c","t"," ","2","0","2","1"," ","I","n","t","e","r","n","e","t"," ","W","i","t","h","d","r","a","w","a","l"," ","2","0",".","0","0"," ","6","4","5",".","0","8">>,
                   <<"2","2"," ","X","y","z"," ","2","0","2","1"," ","T","h","i","n","g"," ","1",".","0","0"," ","2",".","0","0">> }
TangerineDocuments ==
    { Statement(<<"t","a","n","g","e","r","i","n","e",".","p","d","f">>,
                <<<<"O","r","a","n","g","e"," ","K","e","y">>, <<"T","r","a","n","s","a","c","t","i","o","n"," ","D","a","t","e"," ","T","r","a","n","s","a","c","t","i","o","n"," ","D","e","s","c","r","i","p","t","i","o","n"," ","A","m","o","u","n","t","(","$",")"," ","B","a","l","a","n","c","e","(","$",")">>>>
                \o body) : body \in Bodies(TangerineMenu) }

\* statements whose transactions are spread over three lines: the date, the
\* description, the amount with the balance
TangerineBlocks ==
    { <<date, description, amounts>> :
        date \in {<<"0","1"," ","O","c","t"," ","2","0","2","1">>},
        description \in {<<"I","n","t","e","r","a","c"," ","T","r","a","n","s","f","e","r">>, <<"C","o","f","f","e","e"," ","S","h","o","p">>, <<"O","p","e","n","i","n","g"," ","B","a","l","a","n","c","e">>},
        amounts \in {<<"4","5",".","0","0"," ","6","1","9",".","5","4">>, <<"0",".","0","0"," ","6","1","9",".","5","4">>} }
TangerineBlockDocuments ==
    { Statement(<<"t","a","n","g","e","r","i","n","e",".","p","d","f">>,
                <<<<"O","r","a","n","g","e"," ","K","e","y">>, <<"T","r","a","n","s","a","c","t","i","o","n"," ","D","a","t","e"," ","T","r","a","n","s","a","c","t","i","o","n"," ","D","e","s","c","r","i","p","t","i","o","n"," ","A","m","o","u","n","t","(","$",")"," ","B","a","l","a","n","c","e","(","$",")">>>>
                \o Concat(body)) : body \in Bodies(TangerineBlocks) }

\* statements whose date line is followed by a gap of lines without amounts:
\* a description or nothing, then lines that are blank, a description or a
\* reference, before the rest of the statement
MaxGap == 5
TangerineGaps ==
    { first \o [i \in 1..n |-> filler] :
        first \in {<<>>, <<<<"C","o","f","f","e","e"," ","S","h","o","p">>>>}, n \in 0..(MaxGap - 1),
        filler \in {<<>>, <<"C","o","f","f","e","e"," ","S","h","o","p">>, <<"R","e","f"," ","1","2","3","4","5">>} }
TangerineRests ==
    { <<>>, <<<<"4","5",".","0","0"," ","6","1","9",".","5","4">>>>, <<<<"4","5",".","0","0">>>>, <<<<"0","2"," ","O","c","t"," ","2","0","2","1">>>>,
      <<<<"0","2"," ","O","c","t"," ","2","0","2","1">>, <<"T","e","a"," ","H","o","u","s","e">>, <<"3",".","0","0"," ","6","1","6",".","5","4">>>> }
TangerineGapDocuments ==
    { Statement(<<"t","a","n","g","e","r","i","n","e",".","p","d","f">>,
                <<<<"O","r","a","n","g","e"," ","K","e","y">>, <<"T","r","a","n","s","a","c","t","i","o","n"," ","D","a","t","e"," ","T","r","a","n","s","a","c","t","i","o","n"," ","D","e","s","c","r","i","p","t","i","o","n"," ","A","m","o","u","n","t","(","$",")"," ","B","a","l","a","n","c","e","(","$",")">>,
                  <<"0","1"," ","O","c","t"," ","2","0","2","1">>>> \o gap \o rest) :
        gap \in TangerineGaps, rest \in TangerineRests }

ScotiaBankMenu == { <<"D","e","c","1","8"," ","M","B","-","T","R","A","N","S","F","E","R"," ","5","0",".","0","0">>, <<"w","i","t","h","d","r","a","w","a","l"," ","A","B","M"," ","2","0",".","0","0">>, <<"D","e","p","o","s","i","t"," ","1","0","0",".","0","0">>,
                    <<"O","p","e","n","i","n","g"," ","B","a","l","a","n","c","e"," ","d","e","p","o","s","i","t"," ","5",".","0","0">>, <<"J","a","n","5">> }
ScotiaBankDocuments ==
    { Statement(<<"s","c","o","t","i","a",".","p","d","f">>, <<<<"S","c","o","t","i","a","b","a","n","k"," ","c","h","e","q","u","i","n","g">>>> \o body) :
        body \in Bodies(ScotiaBankMenu) }

\* tables with carried dates: the lines of a table are distinct
DistinctBodies(menu) == { body \in Bodies(menu) : \A i, j \in 1..Len(body) :
                                                     body[i] = body[j] => i = j }
TableMenu == { <<"3"," ","M","a","r"," "," ","D","E","P","O","S","I","T"," "," ","1","0","0",".","0","0">>, <<" "," ","W","I","T","H","D","R","A","W","A","L"," "," ","2","0",".","0","0">>, <<"1","0"," ","M","a","r"," "," ","C","O","F","F","E","E"," "," ","4",".","5","0">>,
               <<"M","a","r"," ","3"," "," ","R","E","F","U","N","D"," "," ","9",".","0","0">>, <<"M","a","y"," ","1"," "," ","G","R","O","C","E","R","Y"," "," ","3","1",".","2","0"," ","5","0","0",".","0","0">>, <<"1","2"," ","A","p","r">>,
               <<"2","5"," ","M","a","r","k","e","t","i","n","g"," "," ","F","E","E"," "," ","1","0",".","0","0">> }
RBCBankDocuments ==
    { Statement(<<"r","b","c",".","p","d","f">>, <<<<"D","e","t","a","i","l","s"," ","o","f"," ","y","o","u","r"," ","a","c","c","o","u","n","t"," ","a","c","t","i","v","i","t","y">>>> \o body) :
        body \in DistinctBodies(TableMenu) }
CIBCDocuments ==
    { Pdf(<<"c","i","b","c",".","p","d","f">>, <<<<<<"C","I","B","C"," ","A","c","c","o","u","n","t"," ","S","t","a","t","e","m","e","n","t">>>>, <<<<"T","r","a","n","s","a","c","t","i","o","n"," ","d","e","t","a","i","l","s">>>> \o body>>,
          << <<>>, <<>> >>) : body \in DistinctBodies(TableMenu) }

\* credit card statements: two dates, a description and an amount on a line
TDCreditMenu == { <<"F","E","B"," ","2","6"," ","F","E","B"," ","2","7"," ","S","T","A","R","B","U","C","K","S"," ","T","O","R","O","N","T","O"," ","$","1",".","7","5">>,
                  <<"F","E","B","2","6"," ","F","E","B","2","7"," ","S","T","O","R","E"," ","1","2",".","5","0"," ","T","O","R","O","N","T","O"," ","$","4","5",".","0","0">>,
                  <<"M","A","R"," ","1"," ","M","A","R"," ","2"," ","R","E","F","U","N","D"," ","-","$","4","4",".","0","0">>,
                  <<"X","Y","Z"," ","1"," ","M","A","R"," ","2"," ","T","H","I","N","G"," ","S","T","O","R","E"," ","$","3",".","0","0">>,
                  <<"N","E","T"," ","A","M","O","U","N","T"," ","O","F"," ","M","O","N","T","H","L","Y"," ","A","C","T","I","V","I","T","Y"," ","$","4","8",".","5","0">>,
                  <<"M","A","R"," ","3"," ","M","A","R"," ","4"," ","B","O","O","K","S"," ","$","8",".","5","7"," ","$","0",".","0","4">> }
TDCreditDocuments ==
    { Statement(<<"t","d","-","v","i","s","a",".","p","d","f">>, <<<<"T","D"," ","C","A","S","H"," ","B","A","C","K"," ","V","I","S","A">>, first>> \o body) :
        first \in {<<"A","C","T","I","V","I","T","Y"," ","D","E","S","C","R","I","P","T","I","O","N"," ","A","M","O","U","N","T","(","$",")">>, <<"T","D"," ","R","e","w","a","r","d","s">>},
        body \in Bodies(TDCreditMenu) }
TangerineCreditMenu == { <<"1","5","-","F","e","b","-","2","0","2","5"," ","1","7","-","F","e","b","-","2","0","2","5"," ","A","G","E","N","C","E"," ","D","E"," ","M","O","B","I","L","I","T","E"," ","$","8",".","5","7"," ","$","0",".","0","4">>,
                         <<"1","6","-","F","e","b","-","2","0","2","5"," ","1","7","-","F","e","b","-","2","0","2","5"," ","S","T","O","R","E"," ","1","2",".","5","0"," ","M","O","N","T","R","E","A","L"," ","Q","C"," ","$","4","5",".","0","0"," ","$","0",".","2","3">>,
                         <<"2","3","-","J","a","n","-","2","0","2","5"," ","2","3","-","J","a","n","-","2","0","2","5"," ","P","A","Y","M","E","N","T"," ","-"," ","T","H","A","N","K"," ","Y","O","U"," ","-","$","2",",","2","9","2",".","9","1">>,
                         <<"0","1","-","F","e","b","-","2","0","2","5"," ","0","2","-","F","e","b","-","2","0","2","5"," ","C","A","F","E"," ","O","N"," ","$","3",".","0","0">>,
                         <<"0","3","-","X","y","z","-","2","0","2","5"," ","0","4","-","F","e","b","-","2","0","2","5"," ","T","H","I","N","G"," ","S","T","O","R","E"," ","$","3",".","0","0">>,
                         <<"M","i","n","i","m","u","m"," ","P","a","y","m","e","n","t",":"," ","0","5","-","F","e","b","-","2","0","2","5"," ","0","6","-","F","e","b","-","2","0","2","5"," ","$","1","0",".","0","0">> }
TangerineCreditDocuments ==
    { Statement(<<"t","a","n","g","e","r","i","n","e","-","c","a","r","d",".","p","d","f">>,
                <<<<"T","a","n","g","e","r","i","n","e"," ","M","o","n","e","y","-","B","a","c","k"," ","C","r","e","d","i","t"," ","C","a","r","d">>, first>> \o body) :
        first \in {<<"T","r","a","n","s","a","c","t","i","o","n"," ","P","o","s","t","e","d"," ","D","e","s","c","r","i","p","t","i","o","n"," ","C","a","t","e","g","o","r","y"," ","A","m","o","u","n","t"," ","R","e","w","a","r","d">>, <<"T","a","n","g","e","r","i","n","e",".","c","a",":"," ","h","e","l","p">>},
        body \in Bodies(TangerineCreditMenu) }

\* statements of the CIBC Visa card: a line with two dates, the line of the
\* exchange rate, a table heading that is not followed by its second line, a
\* line whose month is not one, a line without a blank before its amount, the
\* heading of the section after the table
CIBCVisaMenu == { <<"D","E","C"," ","2","8"," ","D","E","C"," ","2","9"," ","W","W","W",".","A","L","I","E","X","P","R","E","S","S",".","C","O","M"," ","L","O","N","D","O","N"," ","1","3",".","6","3">>,
                  <<"1","8",".","5","3"," ","C","A","D"," ","@"," ","0",".","7","3","5","5","6","3","9","5","0","*","*">>,
                  <<"T","r","a","n","s"," ","P","o","s","t">>,
                  <<"X","Y","Z"," ","2","8"," ","D","E","C"," ","2","9"," ","T","H","I","N","G"," ","S","T","O","R","E"," ","5",".","0","0">>,
                  <<"D","E","C"," ","2","8"," ","D","E","C"," ","2","9"," ","S","T","O","R","E","X","9","9","1","3",".","6","3">>,
                  <<"I","n","t","e","r","e","s","t"," ","c","h","a","r","g","e","s">> }
CIBCVisaDocuments ==
    { Statement(<<"c","i","b","c","-","v","i","s","a",".","p","d","f">>,
                <<<<"C","I","B","C"," ","V","i","s","a">>, <<"T","r","a","n","s"," ","P","o","s","t">>, <<"d","a","t","e"," ","d","a","t","e"," ","D","e","s","c","r","i","p","t","i","o","n"," ","A","m","o","u","n","t">>>> \o body) :
        body \in DistinctBodies(CIBCVisaMenu) }

\* statements that no format claims
GenericMenu == { <<"0","1","/","0","2","/","2","0","2","4"," ","C","O","F","F","E","E"," ","S","H","O","P"," ","$","4",".","5","0">>, <<"0","1","/","0","3","/","2","0","2","4"," ","S","T","O","R","E"," ","-","$","3",".","2","0">>,
                 <<"0","1","/","0","4","/","2","0","2","4"," ","R","E","F","U","N","D"," ","(","$","4","5",".","0","0",")">>, <<"O","p","e","n","i","n","g"," ","B","a","l","a","n","c","e"," ","0","1","/","0","1","/","2","0","2","4"," ","$","5",".","0","0">>,
                 <<"H","E","L","L","O"," ","W","O","R","L","D">>, <<"0","1","/","0","5","/","2","0","2","4"," ","C","O","F","F","E","E">> }
GenericDocuments == { Statement(<<"s","t","a","t","e","m","e","n","t",".","p","d","f">>, body) : body \in Bodies(GenericMenu) }

\* scanned statements: pages without text
Reading(text, confidence) == [text |-> text, confidence |-> confidence]
ReadingMenu == { Reading(<<"0","1","/","0","3","/","2","0","2","4"," ","S","T","O","R","E"," ","-","$","3",".","2","0">>, 90), Reading(<<"S","T","O","R","E"," ","$","4",".","5","0">>, 95),
                 Reading(<<"J","a","n"," ","5"," ","P","A","Y","M","E","N","T">>, 80), Reading(<<"(","$","4","5",".","0","0",")">>, 71),
                 Reading(<<"0","1","/","0","4","/","2","0","2","4"," ","R","E","F","U","N","D"," ","(","$","4","5",".","0","0",")">>, 88), Reading(<<"H","E","L","L","O"," ","W","O","R","L","D">>, 99),
                 Reading(<<"0","1","/","0","2","/","2","0","2","4"," ","C","O","F","F","E","E"," ","$","4",".","5","0">>, 70) }
ScannedDocuments ==
    { Pdf(<<"s","c","a","n",".","p","d","f">>, << <<>> >>, <<readings>>) : readings \in Bodies(ReadingMenu) }

\* a page of text that is long enough for the text path
Filler == <<"T","h","a","n","k"," ","y","o","u"," ","f","o","r"," ","b","a","n","k","i","n","g"," ","w","i","t","h"," ","u","s"," ","t","h","i","s"," ","m","o","n","t","h">>
LongPage == << <<"A","c","c","o","u","n","t"," ","a","c","t","i","v","i","t","y"," ","f","o","r"," ","t","h","e"," ","m","o","n","t","h"," ","o","f"," ","J","a","n","u","a","r","y">>,
               <<"0","1","/","0","2","/","2","0","2","4"," ","C","O","F","F","E","E"," ","S","H","O","P"," ","$","4",".","5","0">>, <<"0","1","/","0","3","/","2","0","2","4"," ","S","T","O","R","E"," ","-","$","3",".","2","0">>,
               Filler, <<"0","1","/","0","4","/","2","0","2","4"," ","R","E","F","U","N","D"," ","(","$","4","5",".","0","0",")">>, Filler,
               <<"P","l","e","a","s","e"," ","k","e","e","p"," ","t","h","i","s"," ","p","a","g","e"," ","f","o","r"," ","y","o","u","r"," ","r","e","c","o","r","d","s">> >>
TextDocuments ==
    { Statement(<<"j","a","n","u","a","r","y",".","p","d","f">>, LongPage \o LongPage \o <<Filler, Filler>>),
      Statement(<<"f","e","b","r","u","a","r","y",".","p","d","f">>,
                LongPage \o LongPage \o <<Filler, <<"O","p","e","n","i","n","g"," ","B","a","l","a","n","c","e"," ","0","1","/","0","1","/","2","0","2","4"," ","$","5",".","0","0">>>>) }

\* some pages with text and some without
MixedDocuments ==
    { Pdf(<<"m","a","r","c","h",".","p","d","f">>, <<LongPage \o LongPage \o <<Filler, Filler>>, <<<<"P","a","g","e"," ","2"," ","o","f"," ","2">>>>>>,
          << <<>>, <<Reading(<<"J","a","n"," ","5"," ","P","A","Y","M","E","N","T">>, 80)>> >>),
      Pdf(<<"m","i","x","e","d",".","p","d","f">>, <<LongPage, <<>>>>,
          << <<>>, <<Reading(<<"0","1","/","0","3","/","2","0","2","4"," ","S","T","O","R","E"," ","-","$","3",".","2","0">>, 90)>> >>),
      Pdf(<<"s","p","a","r","s","e",".","p","d","f">>, << <<<<"A","c","c","o","u","n","t"," ","s","u","m","m","a","r","y">>, <<"0","1","/","0","2","/","2","0","2","4"," ","C","O","F","F","E","E"," ","S","H","O","P"," ","$","4",".","5","0">>, Filler,
                             Filler, Filler>> >>,
          << <<Reading(<<"S","T","O","R","E"," ","$","4",".","5","0">>, 95), Reading(<<"J","a","n"," ","5"," ","P","A","Y","M","E","N","T">>, 80)>> >>),
      [Pdf(<<"b","r","o","k","e","n",".","p","d","f">>, <<LongPage>>, << <<>> >>) EXCEPT !.openable = FALSE] }

\* files that pdfplumber opens and the rasterizer fails on
UnrenderedDocuments ==
    { [pdf EXCEPT !.rasterizable = FALSE] :
        pdf \in { Pdf(<<"m","i","x","e","d",".","p","d","f">>, <<LongPage, <<>>>>,
                      << <<>>, <<Reading(<<"0","1","/","0","3","/","2","0","2","4"," ","S","T","O","R","E"," ","-","$","3",".","2","0">>, 90)>> >>),
                  Pdf(<<"m","i","x","e","d",".","p","d","f">>, <<<<>>, LongPage>>,
                      << <<Reading(<<"0","1","/","0","3","/","2","0","2","4"," ","S","T","O","R","E"," ","-","$","3",".","2","0">>, 90)>>, <<>> >>),
                  Pdf(<<"s","c","a","n",".","p","d","f">>, << <<>> >>, << <<Reading(<<"S","T","O","R","E"," ","$","4",".","5","0">>, 95)>> >>) } }

\* files that pdfplumber cannot open, whatever they hold
BrokenDocuments ==
    { [Statement(<<"b","m","o",".","p","d","f">>, <<<<"B","M","O"," ","M","a","s","t","e","r","C","a","r","d">>, <<"N","o","v",".","3"," ","N","o","v",".","8"," ","C","O","F","F","E","E"," ","S","H","O","P"," ","1","2",".","0","0">>>>)
         EXCEPT !.openable = FALSE],
      [Statement(<<"s","c","o","t","i","a","-","b","a","n","k",".","p","d","f">>, <<<<"D","e","p","o","s","i","t"," ","1","0","0",".","0","0">>>>) EXCEPT !.openable = FALSE] }

Clocks == { [year |-> 2025, month |-> 2], [year |-> 2025, month |-> 6] }

\* documents of several pages of one line each, opened by several paths, for
\* the identification of the format; a page of the menu may be without text
Paged(pdf_path, pages) == Pdf(pdf_path, pages, [p \in 1..Len(pages) |-> <<>>])
IdentifyPaths == { <<"s","t","a","t","e","m","e","n","t",".","p","d","f">>, <<"v","i","s","a","/","s","t","a","t","e","m","e","n","t",".","p","d","f">>, <<"r","b","c","-","v","i","s","a",".","p","d","f">>, <<"s","c","o","t","i","a","-","b","a","n","k",".","p","d","f">> }
IdentifyMenu == { <<>>, <<<<"P","a","g","e"," ","2"," ","o","f"," ","4">>>>, <<<<"B","M","O"," ","M","a","s","t","e","r","C","a","r","d">>>>, <<<<"T","D"," ","P","e","r","s","o","n","a","l">>>>,
                  <<<<"T","D"," ","C","r","e","d","i","t"," ","C","a","r","d"," ","M","i","n","i","m","u","m"," ","P","a","y","m","e","n","t">>>>, <<<<"R","o","y","a","l"," ","B","a","n","k"," ","o","f"," ","C","a","n","a","d","a">>>>,
                  <<<<"R","B","C"," ","V","i","s","a">>>>, <<<<"C","I","B","C"," ","V","i","s","a"," ","A","m","o","u","n","t"," ","D","u","e">>>>, <<<<"S","c","o","t","i","a","b","a","n","k"," ","c","h","e","q","u","i","n","g">>>>,
                  <<<<"S","c","o","t","i","a","b","a","n","k"," ","c","r","e","d","i","t"," ","l","i","m","i","t">>>>,
                  <<<<"w","w","w",".","t","a","n","g","e","r","i","n","e",".","c","a"," ","M","o","n","e","y","-","B","a","c","k"," ","C","r","e","d","i","t"," ","C","a","r","d"," ","C","r","e","d","i","t"," ","l","i","m","i","t">>>> }
IdentifyDocuments ==
    { Paged(pdf_path, pages) :
        pdf_path \in IdentifyPaths,
        pages \in { <<a>> : a \in IdentifyMenu }
                  \cup { <<a, b>> : a \in IdentifyMenu, b \in IdentifyMenu }
                  \cup { <<<<<<"P","a","g","e"," ","1"," ","o","f"," ","4">>>>, <<>>, a, b>> :
                           a \in IdentifyMenu, b \in IdentifyMenu } }
    \cup { [Paged(<<"s","t","a","t","e","m","e","n","t",".","p","d","f">>, <<<<<<"B","M","O"," ","M","a","s","t","e","r","C","a","r","d">>>>>>) EXCEPT !.openable = FALSE] }

\* documents whose pages have a given number of characters, for the
\* classification by the amount of text; a page of 0 characters has no text
Chars(n) == IF n = 0 THEN <<>> ELSE <<[i \in 1..n |-> "x"]>>
Padded(n) == <<<<" "," ">>, [i \in 1..n |-> IF i = 7 THEN " " ELSE "x"], <<" ">>>>
Sized(sizes) == Paged(<<"s","i","z","e","d",".","p","d","f">>, [p \in 1..Len(sizes) |-> Chars(sizes[p])])
AroundThresholds == { 99, 100, 101, 499, 500, 501 }
DetectDocuments ==
    { Sized(<<a>>) : a \in AroundThresholds \cup {0} }
    \cup { Sized(<<a, b>>) : a \in AroundThresholds, b \in AroundThresholds }
    \cup { Sized(<<a, 0, 0>>) : a \in { 299, 300, 301, 1499, 1500, 1501 } }
    \cup { Sized(<<a, a, a, b>>) : a \in { 99, 100, 500 }, b \in { 0, 2000 } }
    \cup { Paged(<<"p","a","d","d","e","d",".","p","d","f">>, <<Padded(a)>>) : a \in AroundThresholds }
    \cup { Paged(<<"e","m","p","t","y",".","p","d","f">>, <<>>),
           [Sized(<<501>>) EXCEPT !.openable = FALSE] }

\* statements of two pages for the extractors that keep a section or a date
\* from line to line: a page may end under a section or a date, and begin
\* with lines that have neither
TDPages ==
    { <<<<"D","e","b","i","t","s">>>>, <<<<"0","7","/","0","2"," ","D","E","P","O","S","I","T"," ","3",",","7","5","0",".","0","0">>>>,
      <<<<"C","r","e","d","i","t","s">>, <<"0","7","/","0","2"," ","D","E","P","O","S","I","T"," ","3",",","7","5","0",".","0","0">>>>,
      <<<<"0","7","/","0","2"," ","D","E","P","O","S","I","T"," ","3",",","7","5","0",".","0","0">>, <<"D","e","b","i","t","s">>, <<"0","7","/","0","3"," ","W","I","T","H","D","R","A","W","A","L"," ","F","E","E"," ","1",",","2","0","0",".","0","0">>>>,
      <<<<"D","A","I","L","Y"," ","A","C","C","O","U","N","T"," ","A","C","T","I","V","I","T","Y">>, <<"0","7","/","0","3"," ","W","I","T","H","D","R","A","W","A","L"," ","F","E","E"," ","1",",","2","0","0",".","0","0">>>>, <<>> }
RBCPages ==
    { <<<<"D","e","t","a","i","l","s"," ","o","f"," ","y","o","u","r"," ","a","c","c","o","u","n","t"," ","a","c","t","i","v","i","t","y">>, <<"3"," ","M","a","r"," "," ","D","E","P","O","S","I","T"," "," ","1","0","0",".","0","0">>>>,
      <<<<"D","e","t","a","i","l","s"," ","o","f"," ","y","o","u","r"," ","a","c","c","o","u","n","t"," ","a","c","t","i","v","i","t","y">>, <<" "," ","W","I","T","H","D","R","A","W","A","L"," "," ","2","0",".","0","0">>>>,
      <<<<"D","e","t","a","i","l","s"," ","o","f"," ","y","o","u","r"," ","a","c","c","o","u","n","t"," ","a","c","t","i","v","i","t","y">>, <<" "," ","W","I","T","H","D","R","A","W","A","L"," "," ","2","0",".","0","0">>, <<"1","0"," ","M","a","r"," "," ","C","O","F","F","E","E"," "," ","4",".","5","0">>,
        <<" "," ","W","I","T","H","D","R","A","W","A","L"," "," ","2","0",".","0","0">>>>,
      <<<<"D","e","t","a","i","l","s"," ","o","f"," ","y","o","u","r"," ","a","c","c","o","u","n","t"," ","a","c","t","i","v","i","t","y">>, <<"1","2"," ","A","p","r">>>>,
      <<<<"1","2"," ","A","p","r">>, <<" "," ","W","I","T","H","D","R","A","W","A","L"," "," ","2","0",".","0","0">>>>, <<>> }
CIBCPages ==
    { <<<<"T","r","a","n","s","a","c","t","i","o","n"," ","d","e","t","a","i","l","s">>, <<"M","a","r"," ","3"," "," ","R","E","F","U","N","D"," "," ","9",".","0","0">>>>,
      <<<<"T","r","a","n","s","a","c","t","i","o","n"," ","d","e","t","a","i","l","s">>, <<" "," ","W","I","T","H","D","R","A","W","A","L"," "," ","2","0",".","0","0">>>>,
      <<<<"T","r","a","n","s","a","c","t","i","o","n"," ","d","e","t","a","i","l","s">>, <<" "," ","W","I","T","H","D","R","A","W","A","L"," "," ","2","0",".","0","0">>, <<"M","a","y"," ","1"," "," ","G","R","O","C","E","R","Y"," "," ","3","1",".","2","0"," ","5","0","0",".","0","0">>,
        <<" "," ","W","I","T","H","D","R","A","W","A","L"," "," ","2","0",".","0","0">>>>,
      <<<<"T","r","a","n","s","a","c","t","i","o","n"," ","d","e","t","a","i","l","s">>, <<"A","p","r"," ","1","2">>>>,
      <<<<"A","p","r"," ","1","2">>, <<" "," ","W","I","T","H","D","R","A","W","A","L"," "," ","2","0",".","0","0">>>>, <<<<"C","o","n","t","i","n","u","e","d">>>> }
ScotiaBankPages ==
    { <<<<"D","e","c","1","8"," ","M","B","-","T","R","A","N","S","F","E","R"," ","5","0",".","0","0">>>>, <<<<"w","i","t","h","d","r","a","w","a","l"," ","A","B","M"," ","2","0",".","0","0">>>>, <<<<"J","a","n","5">>>>,
      <<<<"J","a","n","5">>, <<"w","i","t","h","d","r","a","w","a","l"," ","A","B","M"," ","2","0",".","0","0">>>>,
      <<<<"w","i","t","h","d","r","a","w","a","l"," ","A","B","M"," ","2","0",".","0","0">>, <<"D","e","c","1","8"," ","M","B","-","T","R","A","N","S","F","E","R"," ","5","0",".","0","0">>, <<"D","e","p","o","s","i","t"," ","1","0","0",".","0","0">>>>, <<>> }
PagedDocuments(fn) ==
    CASE fn = "TDProcessor" -> { Paged(<<"t","d",".","p","d","f">>, <<a, b>>) : a, b \in TDPages }
      [] fn = "RBCBankProcessor" -> { Paged(<<"r","b","c",".","p","d","f">>, <<a, b>>) : a, b \in RBCPages }
      [] fn = "CIBCProcessor" ->
            { Paged(<<"c","i","b","c",".","p","d","f">>, <<<<<<"C","I","B","C"," ","A","c","c","o","u","n","t"," ","S","t","a","t","e","m","e","n","t">>>>, a, b>>) : a, b \in CIBCPages }
      [] fn = "ScotiaBankProcessor" ->
            { Paged(<<"s","c","o","t","i","a",".","p","d","f">>, <<a, b>>) : a, b \in ScotiaBankPages }

--------------------------------------------------------------------------
(* The extractors as a state machine: an extractor is constructed, then    *)
(* its extract_transactions is called on a document                        *)

Others == <<call, ret, ret2, self_poppler_path, self_ocr_reader, result>>

Extractors == { "BMOProcessor", "EQBankProcessor", "TDProcessor", "TangerineProcessor",
                "ScotiaBankProcessor", "RBCBankProcessor", "CIBCProcessor",
                "TextBasedExtractor", "OCRExtractor" }

\* the OCR extractor is constructed with a rasterizer path and an OCR reader,
\* either of which may be missing
InitExtract ==
    /\ call \in [fn : Extractors]
    /\ pc = "constructed"
    /\ self_poppler_path \in IF call.fn = "OCRExtractor" THEN BOOLEAN ELSE {FALSE}
    /\ self_ocr_reader \in IF call.fn = "OCRExtractor" THEN BOOLEAN ELSE {FALSE}
    /\ document = NoDocument
    /\ now = [year |-> 2025, month |-> 6]
    /\ extracted = <<>>
    /\ ret = NoValue /\ ret2 = NoValue /\ result = NoValue

BMOExtract ==
    /\ pc = "constructed" /\ call.fn = "BMOProcessor"
    /\ \E pdf \in BMODocuments :
         /\ document' = pdf
         /\ extracted' = Invoke("BMO_extract_transactions", <<pdf>>)
    /\ pc' = "extracted"
    /\ UNCHANGED <<now, Others>>

EQExtract ==
    /\ pc = "constructed" /\ call.fn = "EQBankProcessor"
    /\ \E pdf \in EQDocuments, today \in Clocks :
         /\ document' = pdf
         /\ now' = today
         /\ extracted' = Invoke("EQ_extract_transactions", <<pdf, today>>)
    /\ pc' = "extracted"
    /\ UNCHANGED Others

TDExtract ==
    /\ pc = "constructed" /\ call.fn = "TDProcessor"
    /\ \E pdf \in TDDocuments \cup TDSectionDocuments :
         /\ document' = pdf
         /\ extracted' = Invoke("TD_extract_transactions", <<pdf>>)
    /\ pc' = "extracted"
    /\ UNCHANGED <<now, Others>>

TangerineExtract ==
    /\ pc = "constructed" /\ call.fn = "TangerineProcessor"
    /\ \E pdf \in TangerineDocuments \cup TangerineBlockDocuments
                    \cup TangerineGapDocuments :
         /\ document' = pdf
         /\ extracted' = Invoke("Tangerine_extract_transactions", <<pdf>>)
    /\ pc' = "extracted"
    /\ UNCHANGED <<now, Others>>

ScotiaBankExtract ==
    /\ pc = "constructed" /\ call.fn = "ScotiaBankProcessor"
    /\ \E pdf \in ScotiaBankDocuments :
         /\ document' = pdf
         /\ extracted' = Invoke("ScotiaBank_extract_transactions", <<pdf>>)
    /\ pc' = "extracted"
    /\ UNCHANGED <<now, Others>>

RBCBankExtract ==
    /\ pc = "constructed" /\ call.fn = "RBCBankProcessor"
    /\ \E pdf \in RBCBankDocuments :
         /\ document' = pdf
         /\ extracted' = Invoke("RBCBank_extract_transactions", <<pdf>>)
    /\ pc' = "extracted"
    /\ UNCHANGED <<now, Others>>

CIBCExtract ==
    /\ pc = "constructed" /\ call.fn = "CIBCProcessor"
    /\ \E pdf \in CIBCDocuments :
         /\ document' = pdf
         /\ extracted' = Invoke("CIBC_extract_transactions", <<pdf>>)
    /\ pc' = "extracted"
    /\ UNCHANGED <<now, Others>>

TextExtract ==
    /\ pc = "constructed" /\ call.fn = "TextBasedExtractor"
    /\ \E pdf \in GenericDocuments :
         /\ document' = pdf
         /\ extracted' = Invoke("Text_extract_transactions", <<pdf>>)
    /\ pc' = "extracted"
    /\ UNCHANGED <<now, Others>>

OCRExtract ==
    /\ pc = "constructed" /\ call.fn = "OCRExtractor"
    /\ \E pdf \in ScannedDocuments :
         /\ document' = pdf
         /\ extracted' = Invoke("OCR_extract_transactions", <<pdf, self_poppler_path, self_ocr_reader>>)
    /\ pc' = "extracted"
    /\ UNCHANGED <<now, Others>>

NextExtract ==
    \/ BMOExtract \/ EQExtract \/ TDExtract \/ TangerineExtract
    \/ ScotiaBankExtract \/ RBCBankExtract \/ CIBCExtract \/ TextExtract \/ OCRExtract

SpecExtract == InitExtract /\ [][NextExtract]_vars

--------------------------------------------------------------------------
(* The two classifiers of a document as a state machine: one call of       *)
(* SmartDocumentProcessor.identify_bank or of                              *)
(* DocumentProcessor._detect_document_type on a document                   *)

Classifiers == { "identify_bank", "_detect_document_type" }

InitClassify ==
    /\ call \in [fn : Classifiers]
    /\ pc = "call"
    /\ ret = NoValue
    /\ ret2 = NoValue
    /\ Unused

\* ret is the bank_name of the processor returned, <<>> for None
IdentifyBank ==
    /\ pc = "call" /\ call.fn = "identify_bank"
    /\ \E pdf \in IdentifyDocuments :
         /\ document' = pdf
         /\ ret' = Invoke("identify_bank", <<pdf>>)
    /\ pc' = "returned"
    /\ UNCHANGED <<call, ret2, now, self_poppler_path, self_ocr_reader, extracted, result>>

DetectDocumentType ==
    /\ pc = "call" /\ call.fn = "_detect_document_type"
    /\ \E pdf \in DetectDocuments :
         /\ document' = pdf
         /\ ret' = Invoke("_detect_document_type", <<pdf>>)
    /\ pc' = "returned"
    /\ UNCHANGED <<call, ret2, now, self_poppler_path, self_ocr_reader, extracted, result>>

NextClassify == IdentifyBank \/ DetectDocumentType

SpecClassify == InitClassify /\ [][NextClassify]_vars

--------------------------------------------------------------------------
(* The batches as a state machine: the loop over the documents, one        *)
(* document at a time, then what follows the loop                          *)

MaxBatch == 2
Batches(menu) == UNION { [1..n -> menu] : n \in 1..MaxBatch }

\* what the OCR engine reads on the page of two scanned statements
CoffeeScan == Pdf(<<"c","o","f","f","e","e",".","p","d","f">>, << <<>> >>, << <<Reading(<<"0","1","/","0","2","/","2","0","2","4"," ","C","O","F","F","E","E"," ","$","4",".","5","0">>, 88)>> >>)
StoreScan == Pdf(<<"s","c","a","n","s","/","s","t","o","r","e",".","p","d","f">>, << <<>> >>,
                 << <<Reading(<<"0","1","/","0","3","/","2","0","2","4"," ","S","T","O","R","E"," ","-","$","3",".","2","0">>, 90),
                      Reading(<<"0","1","/","0","4","/","2","0","2","4"," ","R","E","F","U","N","D"," ","(","$","4","5",".","0","0",")">>, 88)>> >>)
BrokenScan == [CoffeeScan EXCEPT !.filename = <<"b","r","o","k","e","n",".","p","d","f">>, !.openable = FALSE]
BatchMenu == { CoffeeScan, StoreScan, BrokenScan }

UploadMenu ==
    { Statement(<<"b","m","o",".","p","d","f">>, <<<<"B","M","O"," ","M","a","s","t","e","r","C","a","r","d">>, <<"N","o","v",".","3"," ","N","o","v",".","8"," ","C","O","F","F","E","E"," ","S","H","O","P"," ","1","2",".","0","0">>,
                             <<"N","o","v",".","3"," ","N","o","v",".","8"," ","S","T","O","R","E"," ","5","0",".","0","0">>>>),
      Statement(<<"e","q",".","p","d","f">>, <<<<"E","Q"," ","B","a","n","k">>, <<"S","e","p"," ","2","9"," ","P","A","Y","R","O","L","L"," ","$","1",",","1","0","0",".","0","0">>>>),
      Statement(<<"s","t","a","t","e","m","e","n","t",".","p","d","f">>, <<<<"0","1","/","0","2","/","2","0","2","4"," ","C","O","F","F","E","E"," ","S","H","O","P"," ","$","4",".","5","0">>>>),
      [Statement(<<"b","r","o","k","e","n",".","p","d","f">>, <<<<"E","Q"," ","B","a","n","k">>, <<"S","e","p"," ","2","8"," ","P","R","E","S","T","O"," ","-","$","5","0",".","0","0">>>>)
         EXCEPT !.openable = FALSE] }

\* ret2 is the count of the documents the loop is done with and the
\* processing_results of the loop; extracted is all_transactions; ret is the
\* frame returned, or stored in the session; result is the
\* processing_results of the session
InitBatch ==
    /\ call \in [fn : {"process_multiple_pdfs"}, pdf_paths : Batches(BatchMenu)]
                \cup [fn : {"process_uploaded_files"}, pdf_paths : Batches(UploadMenu)]
    /\ pc = "loop"
    /\ self_poppler_path \in IF call.fn = "process_multiple_pdfs" THEN BOOLEAN ELSE {FALSE}
    /\ self_ocr_reader \in IF call.fn = "process_multiple_pdfs" THEN BOOLEAN ELSE {FALSE}
    /\ document = NoDocument
    /\ now = [year |-> 2025, month |-> 6]
    /\ extracted = <<>>
    /\ ret = NoValue
    /\ ret2 = [done |-> 0, processing_results |-> <<>>]
    /\ result = <<>>

\* one iteration of the loop of process_multiple_pdfs
BatchDocument ==
    /\ pc = "loop" /\ call.fn = "process_multiple_pdfs"
    /\ ret2.done < Len(call.pdf_paths)
    /\ document' = call.pdf_paths[ret2.done + 1]
    /\ extracted' = Extend(extracted, Invoke("BatchRows", <<document', self_poppler_path, self_ocr_reader>>))
    /\ ret2' = [ret2 EXCEPT !.done = ret2.done + 1]
    /\ UNCHANGED <<call, ret, pc, now, self_poppler_path, self_ocr_reader, result>>

\* process_multiple_pdfs after the loop
BatchReturn ==
    /\ pc = "loop" /\ call.fn = "process_multiple_pdfs"
    /\ ret2.done = Len(call.pdf_paths)
    /\ ret' = Invoke("BatchFrame", <<extracted>>)
    /\ pc' = "returned"
    /\ UNCHANGED <<call, ret2, document, now, self_poppler_path, self_ocr_reader,
                   extracted, result>>

\* one iteration of the loop of process_uploaded_files
UploadDocument ==
    /\ pc = "loop" /\ call.fn = "process_uploaded_files"
    /\ ret2.done < Len(call.pdf_paths)
    /\ document' = call.pdf_paths[ret2.done + 1]
    /\ \E step \in {Invoke("UploadStep", <<document', now>>)} :
         /\ extracted' = Extend(extracted, step.rows)
         /\ ret2' = [done |-> ret2.done + 1,
                     processing_results |-> Append(ret2.processing_results, step.entry)]
    /\ UNCHANGED <<call, ret, pc, now, self_poppler_path, self_ocr_reader, result>>

\* process_uploaded_files after the loop: the frame and the results are
\* stored in the session when there is a transaction
UploadReturn ==
    /\ pc = "loop" /\ call.fn = "process_uploaded_files"
    /\ ret2.done = Len(call.pdf_paths)
    /\ ret' = extracted
    /\ result' = IF extracted # <<>> THEN ret2.processing_results ELSE result
    /\ pc' = "returned"
    /\ UNCHANGED <<call, ret2, document, now, self_poppler_path, self_ocr_reader, extracted>>

NextBatch == BatchDocument \/ BatchReturn \/ UploadDocument \/ UploadReturn

SpecBatch == InitBatch /\ [][NextBatch]_vars

--------------------------------------------------------------------------
(* The credit card extractors as a state machine: an extractor is          *)
(* constructed, then its extract_transactions is called on a document      *)

CardExtractors == { "TDCreditCardProcessor", "TangerineCreditCardProcessor" }

InitCard ==
    /\ call \in [fn : CardExtractors]
    /\ pc = "constructed"
    /\ ret = NoValue
    /\ ret2 = NoValue
    /\ Unused

TDCreditCardExtract ==
    /\ pc = "constructed" /\ call.fn = "TDCreditCardProcessor"
    /\ \E pdf \in TDCreditDocuments :
         /\ document' = pdf
         /\ extracted' = Invoke("TDCreditCard_extract_transactions", <<pdf>>)
    /\ pc' = "extracted"
    /\ UNCHANGED <<now, Others>>

TangerineCreditCardExtract ==
    /\ pc = "constructed" /\ call.fn = "TangerineCreditCardProcessor"
    /\ \E pdf \in TangerineCreditDocuments :
         /\ document' = pdf
         /\ extracted' = Invoke("TangerineCreditCard_extract_transactions", <<pdf>>)
    /\ pc' = "extracted"
    /\ UNCHANGED <<now, Others>>

NextCard == TDCreditCardExtract \/ TangerineCreditCardExtract

SpecCard == InitCard /\ [][NextCard]_vars

--------------------------------------------------------------------------
(* The page loops of the Tangerine and CIBC Visa extractors step by step:  *)
(* ret is the number of the page, ret2 the line index (from 1) and the     *)
(* section flag of the while loop, extracted the records appended so far;  *)
(* before the file is opened the page and the index are 0                  *)

LoopExtractors == { "TangerineProcessor", "CIBCVisaProcessor" }

\* a statement with a page without text before its page of lines; the
\* statements of one block or one line of the menu are taken with such a page
AfterEmptyPage(pdf) == Pdf(pdf.filename, << <<>> >> \o pdf.pages, << <<>> >> \o pdf.scan)

LoopDocuments(fn) ==
    IF fn = "TangerineProcessor"
    THEN TangerineGapDocuments
         \cup { AfterEmptyPage(pdf) : pdf \in {d \in TangerineBlockDocuments :
                                                  Len(d.pages[1]) = 5} }
    ELSE CIBCVisaDocuments
         \cup { AfterEmptyPage(pdf) : pdf \in {d \in CIBCVisaDocuments :
                                                  Len(d.pages[1]) = 4} }

InitLoop ==
    /\ call \in [fn : LoopExtractors]
    /\ pc = "constructed"
    /\ ret = 0
    /\ ret2 = [i |-> 0, in_transaction_section |-> FALSE]
    /\ Unused

\* pdfplumber.open(pdf_path) and transactions = []
LoopOpen ==
    /\ pc = "constructed"
    /\ \E pdf \in LoopDocuments(call.fn) :
         /\ document' = pdf
         /\ pc' = IF pdf.openable THEN "page" ELSE "extracted"
    /\ ret' = 1
    /\ extracted' = <<>>
    /\ UNCHANGED <<call, ret2, now, self_poppler_path, self_ocr_reader, result>>

\* the for statement: the next page, skipped if it has no text, or the return
LoopPage ==
    /\ pc = "page"
    /\ IF ret > Len(document.pages)
       THEN pc' = "extracted" /\ UNCHANGED <<ret, ret2>>
       ELSE IF document.pages[ret] = <<>>
       THEN ret' = ret + 1 /\ UNCHANGED <<pc, ret2>>
       ELSE /\ pc' = "lines"
            /\ ret2' = [i |-> 1, in_transaction_section |-> FALSE]
            /\ UNCHANGED ret
    /\ UNCHANGED <<call, document, now, self_poppler_path, self_ocr_reader, extracted, result>>

TangerineIterate ==
    /\ pc = "lines" /\ call.fn = "TangerineProcessor"
    /\ ret2.i <= Len(document.pages[ret])
    /\ \E r \in {Invoke("TangerineIteration", <<document.pages[ret], ret2.i,
                                  ret2.in_transaction_section, ret>>)} :
           /\ extracted' = extracted \o r.tx
           /\ ret2' = [i |-> r.i, in_transaction_section |-> r.in_transaction_section]
    /\ UNCHANGED <<call, ret, pc, document, now, self_poppler_path, self_ocr_reader, result>>

CIBCVisaIterate ==
    /\ pc = "lines" /\ call.fn = "CIBCVisaProcessor"
    /\ ret2.i <= Len(document.pages[ret])
    /\ \E r \in {Invoke("CIBCVisaIteration", <<document.pages[ret], ret2.i,
                                  ret2.in_transaction_section, ret>>)} :
           /\ extracted' = extracted \o r.tx
           /\ ret2' = [i |-> r.i, in_transaction_section |-> r.in_transaction_section]
    /\ UNCHANGED <<call, ret, pc, document, now, self_poppler_path, self_ocr_reader, result>>

\* the while condition is false: the loop over the lines of the page is left
LoopPageEnd ==
    /\ pc = "lines"
    /\ ret2.i > Len(document.pages[ret])
    /\ pc' = "page"
    /\ ret' = ret + 1
    /\ UNCHANGED <<call, ret2, document, now, self_poppler_path, self_ocr_reader,
                   extracted, result>>

NextLoop == LoopOpen \/ LoopPage \/ TangerineIterate \/ CIBCVisaIterate \/ LoopPageEnd

\* ENABLED <<TangerineIterate \/ CIBCVisaIterate>>_vars as a state predicate:
\* an iteration is due and it changes the index, the flag or the records
IterationChanges(r) ==
    \/ r.tx # <<>>
    \/ r.i # ret2.i
    \/ r.in_transaction_section # ret2.in_transaction_section
IterationEnabled ==
    /\ pc = "lines"
    /\ ret2.i <= Len(document.pages[ret])
    /\ IF call.fn = "TangerineProcessor"
       THEN IterationChanges(Invoke("TangerineIteration", <<document.pages[ret], ret2.i,
                                                ret2.in_transaction_section, ret>>))
       ELSE IterationChanges(Invoke("CIBCVisaIteration", <<document.pages[ret], ret2.i,
                                               ret2.in_transaction_section, ret>>))

\* the extractor runs in one thread that is never suspended for good: weak
\* fairness of the steps between the pages and, written out with the
\* predicate above, weak fairness of the iterations
SpecLoop ==
    /\ InitLoop /\ [][NextLoop]_vars
    /\ WF_vars(LoopOpen \/ LoopPage \/ LoopPageEnd)
    /\ ([]<>(~IterationEnabled) \/ []<><<TangerineIterate \/ CIBCVisaIterate>>_vars)

--------------------------------------------------------------------------
(* The extractors that keep a section or a date from line to line, called  *)
(* on statements of several pages                                          *)

PagedExtractors == { "TDProcessor", "RBCBankProcessor", "CIBCProcessor",
                     "ScotiaBankProcessor" }

InitPaged ==
    /\ call \in [fn : PagedExtractors]
    /\ pc = "constructed"
    /\ ret = NoValue
    /\ ret2 = NoValue
    /\ Unused

TDPagedExtract ==
    /\ pc = "constructed" /\ call.fn = "TDProcessor"
    /\ \E pdf \in PagedDocuments(call.fn) :
         /\ document' = pdf
         /\ extracted' = Invoke("TD_extract_transactions", <<pdf>>)
    /\ pc' = "extracted"
    /\ UNCHANGED <<now, Others>>

RBCBankPagedExtract ==
    /\ pc = "constructed" /\ call.fn = "RBCBankProcessor"
    /\ \E pdf \in PagedDocuments(call.fn) :
         /\ document' = pdf
         /\ extracted' = Invoke("RBCBank_extract_transactions", <<pdf>>)
    /\ pc' = "extracted"
    /\ UNCHANGED <<now, Others>>

CIBCPagedExtract ==
    /\ pc = "constructed" /\ call.fn = "CIBCProcessor"
    /\ \E pdf \in PagedDocuments(call.fn) :
         /\ document' = pdf
         /\ extracted' = Invoke("CIBC_extract_transactions", <<pdf>>)
    /\ pc' = "extracted"
    /\ UNCHANGED <<now, Others>>

ScotiaBankPagedExtract ==
    /\ pc = "constructed" /\ call.fn = "ScotiaBankProcessor"
    /\ \E pdf \in PagedDocuments(call.fn) :
         /\ document' = pdf
         /\ extracted' = Invoke("ScotiaBank_extract_transactions", <<pdf>>)
    /\ pc' = "extracted"
    /\ UNCHANGED <<now, Others>>

NextPaged ==
    TDPagedExtract \/ RBCBankPagedExtract \/ CIBCPagedExtract \/ ScotiaBankPagedExtract

SpecPaged == InitPaged /\ [][NextPaged]_vars

--------------------------------------------------------------------------
(* The orchestrators as a state machine: an orchestrator is constructed,   *)
(* then its process_document is called on a document                       *)

Orchestrators == { "SmartDocumentProcessor", "DocumentProcessor" }

\* DocumentProcessor.__init__ looks for the rasterizer and starts the OCR
\* engine; either may be missing
Init ==
    /\ call \in [fn : Orchestrators]
    /\ pc = "constructed"
    /\ self_poppler_path \in IF call.fn = "DocumentProcessor" THEN BOOLEAN ELSE {FALSE}
    /\ self_ocr_reader \in IF call.fn = "DocumentProcessor" THEN BOOLEAN ELSE {FALSE}
    /\ document = NoDocument
    /\ now = [year |-> 2025, month |-> 6]                  \* datetime.now() of the run
    /\ extracted = <<>>
    /\ ret = NoValue /\ ret2 = NoValue /\ result = NoValue

SmartDocuments ==
    BMODocuments \cup EQDocuments \cup TDDocuments \cup TangerineDocuments
    \cup ScotiaBankDocuments \cup GenericDocuments \cup BrokenDocuments

SmartProcessDocument ==
    /\ pc = "constructed" /\ call.fn = "SmartDocumentProcessor"
    /\ \E pdf \in SmartDocuments :
         \E r \in {Invoke("SmartDocumentProcessor_process_document", <<pdf, now>>)} :
            /\ document' = pdf
            /\ extracted' = r.extracted
            /\ result' = r.result
    /\ pc' = "processed"
    /\ UNCHANGED <<call, ret, ret2, now, self_poppler_path, self_ocr_reader>>

DocDocuments ==
    ScannedDocuments \cup TextDocuments \cup MixedDocuments \cup BrokenDocuments
    \cup UnrenderedDocuments

DocProcessDocument ==
    /\ pc = "constructed" /\ call.fn = "DocumentProcessor"
    /\ \E pdf \in DocDocuments :
         \E r \in {Invoke("DocumentProcessor_process_document", <<pdf, self_poppler_path,
                                                      self_ocr_reader>>)} :
            /\ document' = pdf
            /\ extracted' = r.transactions
            /\ result' = r
    /\ pc' = "processed"
    /\ UNCHANGED <<call, ret, ret2, now, self_poppler_path, self_ocr_reader>>

Next == SmartProcessDocument \/ DocProcessDocument

Spec == Init /\ [][Next]_vars


--------------------------------------------------------------------------
(* Properties                                                              *)

Processed(orchestrator) == pc = "processed" /\ call.fn = orchestrator
Extracted == pc = "extracted"
Returned(fn) == pc = "returned" /\ call.fn = fn

\* the lines of text of the document, and the texts the OCR engine reads
TextLines(pdf) == UNION { {pdf.pages[p][i] : i \in 1..Len(pdf.pages[p])} : p \in 1..Len(pdf.pages) }
ReadLines(pdf) == UNION { {pdf.scan[p][i].text : i \in 1..Len(pdf.scan[p])} : p \in 1..Len(pdf.scan) }

\* the record was returned without a direction
Undirected(tx) == ~HasKey(tx, "transaction_type") \/ ~HasKey(tx, "is_spending")

\* C1: when no format claims the document, process_document runs the generic
\* text extractor on it: the result is 'unidentified' with no transaction
\* only if the generic text extractor finds no record in the document.
C1_GenericFallbackRuns ==
    (/\ Processed("SmartDocumentProcessor")
     /\ result.processing_method = <<"u","n","i","d","e","n","t","i","f","i","e","d">>
     /\ result.transactions = <<>>)
        => Invoke("Text_extract_transactions", <<document>>) = <<>>

\* C2: a document classified as scanned_image, processed without an OCR
\* engine or without a rasterizer, gives a result with 'error' set and no
\* transaction.
C2_ScannedWithoutOcrIsAnError ==
    (/\ Processed("DocumentProcessor")
     /\ Invoke("_detect_document_type", <<document>>) = <<"s","c","a","n","n","e","d","_","i","m","a","g","e">>
     /\ (~self_ocr_reader \/ ~self_poppler_path))
        => /\ "error" \in DOMAIN result
           /\ result.transactions = <<>>

\* C3: a record returned without a direction gets it from the sign of its
\* amount, by the rule of its format in the credit-card table: debit and
\* spending exactly when amount > 0 for a credit-card format, exactly when
\* amount < 0 for any other format; credit otherwise.
SpendingBySign(tx) ==
    IF tx.bank \in credit_card_banks THEN tx.amount > 0 ELSE tx.amount < 0

C3_DirectionFromSign ==
    (Processed("SmartDocumentProcessor") /\ result.processing_method # <<"u","n","i","d","e","n","t","i","f","i","e","d">>)
        => /\ Len(result.transactions) = Len(extracted)
           /\ \A i \in 1..Len(extracted) :
                Undirected(extracted[i]) =>
                    /\ result.transactions[i].is_spending = SpendingBySign(extracted[i])
                    /\ (result.transactions[i].transaction_type = <<"d","e","b","i","t">>)
                           <=> SpendingBySign(extracted[i])
                    /\ result.transactions[i].transaction_type \in {<<"d","e","b","i","t">>, <<"c","r","e","d","i","t">>}

\* a deposit record of -50.00 returned without a direction became a debit
C3_DepositDebitSeen ==
    /\ Processed("SmartDocumentProcessor")
    /\ result.processing_method # <<"u","n","i","d","e","n","t","i","f","i","e","d">>
    /\ \E i \in 1..Len(extracted) :
         /\ Undirected(extracted[i])
         /\ extracted[i].bank \notin credit_card_banks
         /\ extracted[i].amount = -5000
         /\ result.transactions[i].transaction_type = <<"d","e","b","i","t">>
         /\ result.transactions[i].is_spending

\* C4: a record on which the extractor set both transaction_type and
\* is_spending keeps both, whatever the sign of its amount and the account
\* type of its format.
C4_ExtractorDirectionKept ==
    (Processed("SmartDocumentProcessor") /\ result.processing_method # <<"u","n","i","d","e","n","t","i","f","i","e","d">>)
        => /\ Len(result.transactions) = Len(extracted)
           /\ \A i \in 1..Len(extracted) :
                ~Undirected(extracted[i]) =>
                    /\ result.transactions[i].transaction_type = extracted[i].transaction_type
                    /\ result.transactions[i].is_spending = extracted[i].is_spending

\* a record its extractor classified against the sign rule: a debit of a
\* deposit format with a positive amount, still a debit in the result
C4_KeptAgainstSignSeen ==
    /\ Processed("SmartDocumentProcessor")
    /\ result.processing_method # <<"u","n","i","d","e","n","t","i","f","i","e","d">>
    /\ \E i \in 1..Len(extracted) :
         /\ ~Undirected(extracted[i])
         /\ extracted[i].transaction_type = <<"d","e","b","i","t">>
         /\ ~SpendingBySign(extracted[i])
         /\ result.transactions[i].transaction_type = <<"d","e","b","i","t">>
         /\ result.transactions[i].is_spending

\* C5: a line with the phrase "Opening Balance" and an amount yields no
\* record: a document of text whose every line either has the phrase or has
\* no digit at all (so no amount) yields no record.
HasOpeningBalance(line) == Contains(Invoke("Lower", <<line>>), <<"o","p","e","n","i","n","g"," ","b","a","l","a","n","c","e">>)

C5_OpeningBalanceSkipped ==
    (/\ Extracted
     /\ call.fn # "OCRExtractor"
     /\ \A line \in TextLines(document) : HasOpeningBalance(line) \/ ~HasDigit(line))
        => extracted = <<>>

\* C6: every record has a date and an amount parsed from the source: the
\* date is never the placeholder "Unknown", and an amount of 0 was written
\* as a zero amount in the source.
C6_DateAndAmountParsed ==
    Extracted =>
        \A i \in 1..Len(extracted) :
            /\ extracted[i].date # <<"U","n","k","n","o","w","n">>
            /\ extracted[i].amount = 0 =>
                   \E line \in TextLines(document) \cup ReadLines(document) :
                       Contains(line, <<"0",".","0","0">>)

\* C7: every record has a non-empty description.
C7_DescriptionNotEmpty ==
    Extracted => \A i \in 1..Len(extracted) : extracted[i].description # <<>>

\* C8: clean_amount removes currency symbols and thousands separators, and a
\* result other than 0 is negative exactly when the string has an opening
\* parenthesis or a minus sign before its first digit or decimal point;
\* "$1,234.56" gives 1234.56, "($45.00)" -45.00, "-$3.20" -3.20 and
\* "12.00" 12.00.
MinusFirst(s) ==
    LET kept == SelectSeq(s, LAMBDA c : c \in Digits \cup {".", "-"})
    IN  kept # <<>> /\ Head(kept) = "-"

AmountExamples ==
    { <<<<"$","1",",","2","3","4",".","5","6">>, 123456>>, <<<<"(","$","4","5",".","0","0",")">>, -4500>>, <<<<"-","$","3",".","2","0">>, -320>>, <<<<"1","2",".","0","0">>, 1200>> }

C8_SignedAmount ==
    Returned("clean_amount") =>
        /\ (ret < 0) <=> (ret # 0 /\ (Contains(call.arg, <<"(">>) \/ MinusFirst(call.arg)))
        /\ \A e \in AmountExamples : call.arg = e[1] => ret = e[2]

\* the parenthesised example was normalized
C8_ParenthesisedSeen ==
    Returned("clean_amount") /\ call.arg = <<"(","$","4","5",".","0","0",")">> /\ ret = -4500

\* C8 as stated: the result is negative exactly when the string is
\* parenthesised or has a leading minus sign.
Parenthesised(s) == s # <<>> /\ Head(s) = "(" /\ s[Len(s)] = ")"

C8_NegativeIffNotation ==
    Returned("clean_amount") =>
        /\ (ret < 0) <=> (Parenthesised(call.arg) \/ StartsWith(call.arg, <<"-">>))
        /\ \A e \in AmountExamples : call.arg = e[1] => ret = e[2]

\* C9: in the generic text extractor and the OCR extractor an amount written
\* "-$3.20" or "($45.00)" gives a negative amount: when every line of the
\* document writes its amount so, every record has a negative amount.
NegativeNotation(line) == Contains(line, <<"-","$">>) \/ Contains(line, <<"(","$">>)

C9_NegativeNotationKept ==
    (/\ Extracted
     /\ call.fn \in {"TextBasedExtractor", "OCRExtractor"}
     /\ \A line \in TextLines(document) \cup ReadLines(document) : NegativeNotation(line))
        => \A i \in 1..Len(extracted) : extracted[i].amount < 0

\* C10: clean_date is idempotent: clean_date(clean_date(d)) = clean_date(d).
C10_CleanDateIdempotent ==
    (pc = "renormalized" /\ call.fn = "clean_date") => ret2 = ret


\* C11: in the extractors that carry dates forward (RBC Bank, CIBC) every
\* record of a table carries the date of the last line, up to its own, that
\* has a date token of the extractor's grammar: day then month ("3 Mar") for
\* RBC Bank, month then day ("Mar 3") for CIBC.
IsDay(w) == Len(w) \in 1..2 /\ \A i \in 1..Len(w) : w[i] \in Digits
IsMonth(w) == Len(w) >= 3 /\ MonthNum(Invoke("Lower", <<Take(w, 3)>>)) # 0

\* the date token of a line as MM-DD, <<>> when the line has none
TokenDate(fn, line) ==
    LET w == Invoke("SplitWs", <<line>>)
        at == {k \in 1..(Len(w) - 1) :
                 IF fn = "RBCBankProcessor" THEN IsDay(w[k]) /\ IsMonth(w[k + 1])
                 ELSE IsMonth(w[k]) /\ IsDay(w[k + 1])}
        k == Lowest(at)
        day == IF fn = "RBCBankProcessor" THEN w[k] ELSE w[k + 1]
        month == IF fn = "RBCBankProcessor" THEN w[k + 1] ELSE w[k]
    IN  IF at = {} THEN <<>>
        ELSE Fmt2(MonthNum(Invoke("Lower", <<Take(month, 3)>>))) \o <<"-">> \o ZFill2(day)

CarriedDate(fn, lines, i) ==
    LET dated == {j \in 1..i : TokenDate(fn, lines[j]) # <<>>}
    IN  IF dated = {} THEN <<>>
        ELSE TokenDate(fn, lines[CHOOSE j \in dated : \A m \in dated : m <= j])

\* the table is on the last page of the document; its lines are distinct
TableLines(pdf) == pdf.pages[Len(pdf.pages)]
SourceLines(lines, tx) ==
    {i \in 1..Len(lines) : Contains(Respaced(lines[i]), tx.description)}

CarryForward == {"RBCBankProcessor", "CIBCProcessor"}
CarryExample == <<<<"3"," ","M","a","r"," "," ","D","E","P","O","S","I","T"," "," ","1","0","0",".","0","0">>, <<" "," ","W","I","T","H","D","R","A","W","A","L"," "," ","2","0",".","0","0">>>>

BlocksOf(pdf) ==
    LET lines == pdf.pages[1]
    IN  [k \in 1..((Len(lines) - 2) \div 3) |-> SubSeq(lines, 3 * k, 3 * k + 2)]
BlockAmount(block) == Invoke("clean_amount", <<Invoke("SplitWs", <<block[3]>>)[1]>>)
BlockBalance(block) == Invoke("clean_amount", <<Invoke("SplitWs", <<block[3]>>)[2]>>)
BalanceEntry(block) ==
    ContainsAny(Invoke("Lower", <<block[2]>>), TangerineBalanceEntries) /\ BlockAmount(block) = 0
NotBalanceEntry(block) == ~BalanceEntry(block)
InteracBlock == <<<<"0","1"," ","O","c","t"," ","2","0","2","1">>, <<"I","n","t","e","r","a","c"," ","T","r","a","n","s","f","e","r">>, <<"4","5",".","0","0"," ","6","1","9",".","5","4">>>>

Sampled(pdf) ==
    [pdf EXCEPT !.pages = SubSeq(pdf.pages, 1, Least(3, Len(pdf.pages))),
                !.filename = basename(pdf.filename)]
Claiming(pdf) == {k \in 1..Len(processors) : Invoke("can_process", <<processors[k], pdf>>)}
Position(bank_name) == CHOOSE k \in 1..Len(processors) : processors[k] = bank_name

Tried ==
    IF ~document.openable THEN <<>>
    ELSE IF ret = <<>> THEN processors
    ELSE SubSeq(processors, 1, Position(ret))
WasTried(bank_name) == \E k \in 1..Len(Tried) : Tried[k] = bank_name

\* the credit-card format and the deposit-account format of an institution
CardAndAccount == { <<<<"B","M","O">>, <<"B","M","O"," ","A","c","c","o","u","n","t">>>>, <<<<"T","D"," ","C","r","e","d","i","t"," ","C","a","r","d">>, <<"T","D"," ","B","a","n","k">>>>,
                    <<<<"T","a","n","g","e","r","i","n","e"," ","C","r","e","d","i","t"," ","C","a","r","d">>, <<"T","a","n","g","e","r","i","n","e">>>>, <<<<"R","B","C"," ","V","i","s","a">>, <<"R","B","C"," ","B","a","n","k">>>>,
                    <<<<"C","I","B","C"," ","V","i","s","a">>, <<"C","I","B","C">>>>, <<<<"S","c","o","t","i","a"," ","C","r","e","d","i","t"," ","C","a","r","d">>, <<"S","c","o","t","i","a","b","a","n","k">>>> }

\* C14: whenever identify_bank tries the deposit-account format of an
\* institution it has tried the credit-card format of the institution before.
C14_CardTriedFirst ==
    Returned("identify_bank") =>
        \A pair \in CardAndAccount :
            WasTried(pair[2]) => Position(pair[1]) < Position(pair[2])

\* C15: the classifier averages the stripped length of the text of the first
\* min(3, page count) pages (0 without pages): text_based strictly above 500,
\* scanned_image strictly below 100, mixed otherwise; mixed when the document
\* cannot be opened.
RECURSIVE Stripped(_)
Stripped(text) ==
    IF text = <<>> THEN text
    ELSE IF Head(text) \in Space \cup {"\n"} THEN Stripped(Tail(text))
    ELSE IF text[Len(text)] \in Space \cup {"\n"} THEN Stripped(SubSeq(text, 1, Len(text) - 1))
    ELSE text
AverageOver == Least(3, Len(document.pages))
TotalText ==
    SumOf([p \in 1..AverageOver |-> Len(Stripped(TextOf(document.pages[p])))])
C15_ClassByAverage ==
    Returned("_detect_document_type") =>
        IF ~document.openable THEN ret = <<"m","i","x","e","d">>
        ELSE /\ ret = <<"t","e","x","t","_","b","a","s","e","d">> <=> TotalText > 500 * AverageOver
             /\ ret = <<"s","c","a","n","n","e","d","_","i","m","a","g","e">> <=> TotalText < 100 * AverageOver \/ AverageOver = 0
             /\ ret \in {<<"t","e","x","t","_","b","a","s","e","d">>, <<"s","c","a","n","n","e","d","_","i","m","a","g","e">>, <<"m","i","x","e","d">>}

\* three pages of exactly 500 characters and a fourth of 2000: mixed
C15_ThresholdSeen ==
    /\ Returned("_detect_document_type")
    /\ document = Sized(<<500, 500, 500, 2000>>)
    /\ ret = <<"m","i","x","e","d">>

\* C20: when the applicability predicate of a credit-card format (TD Credit
\* Card, Tangerine Credit Card, RBC Visa, CIBC Visa, Scotia Credit Card) is
\* true of a document, identify_bank does not return the deposit-account
\* format of the same institution; and a text with a credit-card indicator of
\* Scotia is not claimed by the Scotiabank deposit format, whatever the path.
CreditCardFormats ==
    { <<"T","D"," ","C","r","e","d","i","t"," ","C","a","r","d">>, <<"T","a","n","g","e","r","i","n","e"," ","C","r","e","d","i","t"," ","C","a","r","d">>, <<"R","B","C"," ","V","i","s","a">>, <<"C","I","B","C"," ","V","i","s","a">>, <<"S","c","o","t","i","a"," ","C","r","e","d","i","t"," ","C","a","r","d">> }
C20_CardNotReadAsAccount ==
    (Returned("identify_bank") /\ document.openable) =>
        /\ \A pair \in CardAndAccount :
             (pair[1] \in CreditCardFormats /\ Invoke("can_process", <<pair[1], Sampled(document)>>))
                 => ret # pair[2]
        /\ AnyInLowerText(Sampled(document), ScotiaCreditIndicators)
             => ~Invoke("can_process", <<<<"S","c","o","t","i","a","b","a","n","k">>, Sampled(document)>>)

\* the lines a record of page p may come from: the lines of the text of the
\* page, or what the OCR engine read on it, that hold the first word of its
\* description
PageLines(pdf, p) ==
    IF pdf.pages[p] # <<>> THEN pdf.pages[p]
    ELSE [i \in 1..Len(pdf.scan[p]) |-> pdf.scan[p][i].text]
FirstWord(s) == IF Invoke("SplitWs", <<s>>) = <<>> THEN <<>> ELSE Invoke("SplitWs", <<s>>)[1]
SourcesOf(pdf, tx) ==
    {i \in 1..Len(PageLines(pdf, tx.page)) :
        Contains(PageLines(pdf, tx.page)[i], FirstWord(tx.description))}

\* C16: the records of an extractor are in the order of the pages and, within
\* a page, in the order of their source lines: no record comes after a record
\* of a later page or, when the lines of both are known, of a later line of
\* its page.
C16_SourceOrder ==
    Extracted =>
        \A k \in 1..(Len(extracted) - 1) :
            /\ extracted[k].page <= extracted[k + 1].page
            /\ (/\ extracted[k].page = extracted[k + 1].page
                /\ SourcesOf(document, extracted[k]) # {}
                /\ SourcesOf(document, extracted[k + 1]) # {}) =>
                 \E i \in SourcesOf(document, extracted[k]) :
                     \E j \in SourcesOf(document, extracted[k + 1]) : i <= j

\* C17: for a PDF that cannot be opened, process_document of either
\* orchestrator returns a result with 'error' set and no transaction.
C17_UnopenableIsAnError ==
    (pc = "processed" /\ ~document.openable) =>
        /\ HasKey(result, "error")
        /\ result.transactions = <<>>

\* DocumentProcessor was handed a file it cannot open: hybrid_failed
C17_UnopenableSeen ==
    /\ Processed("DocumentProcessor")
    /\ ~document.openable
    /\ document.pages # <<>>
    /\ result.processing_method = <<"h","y","b","r","i","d","_","f","a","i","l","e","d">>
    /\ result.transactions = <<>>

\* C19: the confidence of the result of a document handled by a dedicated
\* format follows the confidences of its records: <<"h","i","g","h">> when they are all at
\* 0.95, and not <<"h","i","g","h">> when they are all below 0.9 or when there is none.
AllAt95(txs) == txs # <<>> /\ \A k \in 1..Len(txs) : txs[k].confidence = 95
NoneAt90(txs) == \A k \in 1..Len(txs) : txs[k].confidence < 90
C19_ConfidenceFromRecords ==
    (Processed("SmartDocumentProcessor") /\ HasKey(result, "bank")) =>
        /\ AllAt95(result.transactions) => result.confidence = <<"h","i","g","h">>
        /\ NoneAt90(result.transactions) => result.confidence # <<"h","i","g","h">>

\* the transactions process_document gives for a document of the batch, and
\* those of the first n documents of the batch, one document after the other
AloneOf(pdf) ==
    IF call.fn = "process_multiple_pdfs"
    THEN Invoke("DocumentProcessor_process_document", <<pdf, self_poppler_path, self_ocr_reader>>).transactions
    ELSE Invoke("SmartDocumentProcessor_process_document", <<
             [pdf EXCEPT !.filename = <<"t","e","m","p","_">> \o pdf.filename], now>>).result.transactions
RECURSIVE InSubmissionOrder(_)
InSubmissionOrder(n) ==
    IF n = 0 THEN <<>> ELSE InSubmissionOrder(n - 1) \o AloneOf(call.pdf_paths[n])
SameTransaction(row, tx) ==
    /\ row.date = tx.date /\ row.description = tx.description
    /\ row.amount = tx.amount /\ row.page = tx.page

\* C18: a batch goes through every document, whatever happened to the ones
\* before, and its output lists the transactions of the documents in the
\* order of submission, those of a document together and in their own order.
C18_BatchInOrder ==
    (pc = "returned" /\ call.fn \in {"process_multiple_pdfs", "process_uploaded_files"}) =>
        /\ ret2.done = Len(call.pdf_paths)
        /\ Len(ret) = Len(InSubmissionOrder(Len(call.pdf_paths)))
        /\ \A i \in 1..Len(ret) :
             SameTransaction(ret[i], InSubmissionOrder(Len(call.pdf_paths))[i])

\* a file that cannot be opened, then a scanned statement of two lines: the
\* two transactions of the second are the output
C18_AfterFailureSeen ==
    /\ pc = "returned" /\ call.fn = "process_multiple_pdfs"
    /\ call.pdf_paths = <<BrokenScan, StoreScan>>
    /\ Len(ret) = 2
    /\ \A i \in 1..2 : ret[i].source_file = <<"s","t","o","r","e",".","p","d","f">>
    /\ ret[1].amount # ret[2].amount

--------------------------------------------------------------------------
(* Claims C21 to C30                                                      *)

\* a word that is a month abbreviation and nothing more
IsMonthToken(w) == Len(w) = 3 /\ MonthNum(Invoke("Lower", <<w>>)) # 0

\* the date of a line that pairs a day number with a month token, as MM-DD
MonthTokenDate(fn, line) ==
    LET w == Invoke("SplitWs", <<line>>)
        at == {k \in 1..(Len(w) - 1) :
                 IF fn = "RBCBankProcessor" THEN IsDay(w[k]) /\ IsMonthToken(w[k + 1])
                 ELSE IsMonthToken(w[k]) /\ IsDay(w[k + 1])}
        k == Lowest(at)
        day == IF fn = "RBCBankProcessor" THEN w[k] ELSE w[k + 1]
        month == IF fn = "RBCBankProcessor" THEN w[k + 1] ELSE w[k]
    IN  IF at = {} THEN <<>>
        ELSE Fmt2(MonthNum(Invoke("Lower", <<month>>))) \o <<"-">> \o ZFill2(day)

MonthTokenCarried(fn, lines, i) ==
    LET dated == {j \in 1..i : MonthTokenDate(fn, lines[j]) # <<>>}
    IN  IF dated = {} THEN <<>>
        ELSE MonthTokenDate(fn, lines[CHOOSE j \in dated : \A m \in dated : m <= j])

\* C21: in the carry-forward extractors the carried date changes only on a
\* line that pairs a day number with a token that is exactly a month
\* abbreviation: every record carries the date of the last such line up to
\* its own, and a longer word that begins with the letters of a month, as in
\* "25 Marketing", does not change it.
C21_OnlyMonthTokens ==
    (Extracted /\ call.fn \in CarryForward) =>
        \A k \in 1..Len(extracted) :
            \A i \in SourceLines(TableLines(document), extracted[k]) :
                extracted[k].date = MonthTokenCarried(call.fn, TableLines(document), i)

\* a line that starts with a date of the form DD Mon YYYY
IsDateLine(line) ==
    LET w == Invoke("SplitWs", <<line>>)
    IN  /\ Len(w) >= 3
        /\ Len(w[1]) = 2 /\ IsDay(w[1])
        /\ Len(w[2]) = 3 /\ \A i \in 1..3 : w[2][i] \in Alpha
        /\ Len(w[3]) = 4 /\ \A i \in 1..4 : w[3][i] \in Digits

\* the amounts of a line, when it has an amount and a balance
AmountWords(line) == SelectSeq(Invoke("SplitWs", <<line>>), IsAmountPart)
HasAmountAndBalance(line) == Len(AmountWords(line)) >= 2

\* the look-ahead window of the date line i: the four lines after it, up to
\* the next date line
LookaheadWindow(lines, i) ==
    {j \in (i + 1)..(i + 4) :
        j <= Len(lines) /\ \A m \in (i + 1)..j : ~IsDateLine(lines[m])}

\* the lines of the window that carry an amount and a balance
Completing(lines, i) == {j \in LookaheadWindow(lines, i) : HasAmountAndBalance(lines[j])}

\* MM-DD of the date lines of the statements with gaps, all in October
OctoberDate(line) == <<"1","0","-">> \o Invoke("SplitWs", <<line>>)[1]

\* the date line i of the page yields the record tx
YieldedBy(lines, i, tx) ==
    /\ IsDateLine(lines[i]) /\ tx.date = OctoberDate(lines[i])
    /\ Completing(lines, i) # {}
    /\ LET j == Lowest(Completing(lines, i))
       IN  /\ tx.amount = Invoke("clean_amount", <<AmountWords(lines[j])[1]>>)
           /\ tx.balance = Invoke("clean_amount", <<AmountWords(lines[j])[2]>>)

\* C22: in the Tangerine extractor a date line that is not followed, within
\* the look-ahead window (the four lines after it, up to the next date
\* line), by a line with an amount and a balance yields no record: every
\* record is that of a date line completed within its window, with the
\* amount and the balance of the completing line.
C22_NoRecordWithoutAmounts ==
    (Extracted /\ call.fn = "TangerineProcessor" /\ document \in TangerineGapDocuments) =>
        \A k \in 1..Len(extracted) :
            \E i \in 1..Len(document.pages[1]) :
                YieldedBy(document.pages[1], i, extracted[k])

\* the amounts are on the fifth line after the date line, past the window:
\* no record
C22_PastWindowSeen ==
    /\ Extracted /\ call.fn = "TangerineProcessor"
    /\ document \in TangerineGapDocuments
    /\ SubSeq(document.pages[1], 3, Len(document.pages[1]))
         = <<<<"0","1"," ","O","c","t"," ","2","0","2","1">>, <<"C","o","f","f","e","e"," ","S","h","o","p">>, <<>>, <<>>, <<>>, <<"4","5",".","0","0"," ","6","1","9",".","5","4">>>>
    /\ extracted = <<>>

\* a line of the form MM/DD DESCRIPTION AMOUNT
IsTDLine(line) ==
    LET w == Invoke("SplitWs", <<line>>)
    IN  /\ Len(w) >= 3
        /\ Len(w[1]) = 5 /\ w[1][3] = "/"
        /\ \A i \in {1, 2, 4, 5} : w[1][i] \in Digits
        /\ IsAmountPart(w[Len(w)])

\* the section a header line opens, <<>> for a line that is no header
SectionOpened(line) ==
    IF line = <<"C","r","e","d","i","t","s">> THEN <<"c","r","e","d","i","t">>
    ELSE IF line = <<"D","e","b","i","t","s">> THEN <<"d","e","b","i","t">>
    ELSE IF line = <<"D","A","I","L","Y"," ","A","C","C","O","U","N","T"," ","A","C","T","I","V","I","T","Y">> THEN <<"c","r","e","d","i","t">>
    ELSE <<>>

\* the section that is active at line i: that of the last header before it
ActiveSection(lines, i) ==
    LET headers == {j \in 1..(i - 1) : SectionOpened(lines[j]) # <<>>}
    IN  IF headers = {} THEN <<>>
        ELSE SectionOpened(lines[CHOOSE j \in headers : \A m \in headers : m <= j])

\* the transaction lines of a page that are under a section, in order
UnderSection(lines) ==
    LET Sectioned(i) == IsTDLine(lines[i]) /\ ActiveSection(lines, i) # <<>>
    IN  SelectSeq([i \in 1..Len(lines) |-> i], Sectioned)

\* C23: in the TD Bank extractor every transaction line is classified by the
\* section that is active at the line ("Credits", "Debits", with "DAILY
\* ACCOUNT ACTIVITY" opening the credits), whatever its description says, and
\* a transaction line before any section header yields no record.
C23_SectionDecides ==
    (Extracted /\ call.fn = "TDProcessor" /\ document \in TDSectionDocuments) =>
        LET lines == document.pages[1]
            under == UnderSection(lines)
        IN  /\ Len(extracted) = Len(under)
            /\ \A k \in 1..Len(under) :
                 /\ extracted[k].transaction_type = ActiveSection(lines, under[k])
                 /\ extracted[k].is_spending = (ActiveSection(lines, under[k]) = <<"d","e","b","i","t">>)
                 /\ Contains(lines[under[k]], extracted[k].description)

\* "07/02 DEPOSIT 3,750.00" before any header and again under "Debits": one
\* record, a debit
C23_DepositUnderDebitsSeen ==
    /\ Extracted /\ call.fn = "TDProcessor"
    /\ document.pages[1]
         = <<<<"T","D"," ","P","e","r","s","o","n","a","l">>, <<"0","7","/","0","2"," ","D","E","P","O","S","I","T"," ","3",",","7","5","0",".","0","0">>, <<"D","e","b","i","t","s">>, <<"0","7","/","0","2"," ","D","E","P","O","S","I","T"," ","3",",","7","5","0",".","0","0">>>>
    /\ Len(extracted) = 1
    /\ extracted[1].transaction_type = <<"d","e","b","i","t">> /\ extracted[1].is_spending

\* a token that reads as an amount, with or without a sign and a dollar sign
IsAmountToken(w) == Invoke("Match", <<<<Bol, SignedAmount, Eol>>, w>>) # <<>>

\* the amount the line states: its last token, or the token before it when
\* the last is a reward or fee amount that directly follows it
StatedAmount(line, amount) ==
    LET w == Invoke("SplitWs", <<line>>)
        n == Len(w)
    IN  /\ n >= 1 /\ IsAmountToken(w[n])
        /\ \/ amount = Invoke("clean_amount", <<w[n]>>)
           \/ n >= 2 /\ IsAmountToken(w[n - 1]) /\ amount = Invoke("clean_amount", <<w[n - 1]>>)

\* C24: in the extractors of lines with two dates the amount of a record is
\* the last amount token of its line, or the one directly before a single
\* trailing reward or fee amount; an amount-shaped token inside the
\* description is never taken.
C24_LastAmountTaken ==
    (Extracted /\ call.fn \in CardExtractors) =>
        \A k \in 1..Len(extracted) :
            \E i \in 1..Len(document.pages[1]) :
                /\ Contains(document.pages[1][i], extracted[k].description)
                /\ StatedAmount(document.pages[1][i], extracted[k].amount)

\* the amount at the end of a line, 0 when the line ends with none
AmountAtEnd(line) ==
    IF Invoke("SplitWs", <<line>>) = <<>> THEN 0 ELSE AmountMagnitude(Invoke("SplitWs", <<line>>)[Len(Invoke("SplitWs", <<line>>))])

\* the records that claim the amount of line i of the page
ClaimingRecords(lines, i) ==
    {k \in 1..Len(extracted) : Abs(extracted[k].amount) = AmountAtEnd(lines[i])}

\* C25: in the fallback passes of the generic extractor every amount of a
\* page is claimed by at most one record: on a page of distinct lines no
\* line with an amount yields a record in the single-line pass and another
\* in the multi-line pass.
C25_AmountClaimedOnce ==
    (/\ Extracted /\ call.fn = "TextBasedExtractor"
     /\ \A i, j \in 1..Len(document.pages[1]) :
            document.pages[1][i] = document.pages[1][j] => i = j) =>
        \A i \in 1..Len(document.pages[1]) :
            AmountAtEnd(document.pages[1][i]) # 0 =>
                Cardinality(ClaimingRecords(document.pages[1], i)) <= 1

\* a page whose text goes to the text extractor and states a purchase of 4.50
CoffeeLine == <<"0","1","/","0","2","/","2","0","2","4"," ","C","O","F","F","E","E"," ","S","H","O","P"," ","$","4",".","5","0">>
ParsedPages(pdf) ==
    {p \in 1..Len(pdf.pages) :
        /\ StrippedLength(pdf.pages[p]) > 200
        /\ \E i \in 1..Len(pdf.pages[p]) : pdf.pages[p][i] = CoffeeLine}

\* C26: in hybrid processing a failure or an absent text layer on one page
\* does not discard the records of the other pages: the result has the
\* record of every page that parsed.
C26_ParsedPagesKept ==
    (/\ Processed("DocumentProcessor") /\ document.openable
     /\ result.processing_method \in {<<"h","y","b","r","i","d","_","e","x","t","r","a","c","t","i","o","n">>, <<"h","y","b","r","i","d","_","f","a","i","l","e","d">>}) =>
        \A p \in ParsedPages(document) :
            \E k \in 1..Len(result.transactions) :
                /\ result.transactions[k].page = p
                /\ result.transactions[k].amount = 450


\* the records of a result whose flag and type disagree
Disagreeing(transactions) ==
    {k \in 1..Len(transactions) :
        \/ ~HasKey(transactions[k], "is_spending")
        \/ ~HasKey(transactions[k], "transaction_type")
        \/ transactions[k].is_spending # (transactions[k].transaction_type = <<"d","e","b","i","t">>)}

ParserAdvances ==
    (pc = "lines" /\ ret2.i <= Len(document.pages[ret])) =>
        IF call.fn = "TangerineProcessor"
        THEN Invoke("_parse_tangerine_multiline_transaction", <<document.pages[ret], ret2.i,
                                                    ret>>).lines_consumed >= 1
        ELSE Invoke("_parse_cibc_visa_multiline_transaction", <<document.pages[ret], ret2.i,
                                                    ret>>).next_i > ret2.i

\* C28: the page loops of the Tangerine and CIBC Visa extractors terminate:
\* the multi-line parsers return a count of consumed lines of at least 1
\* (Tangerine) or a next index beyond the start index (CIBC Visa) on every
\* path, every iteration leaves a greater line index, and the extractor
\* returns.
C28_LoopsTerminate ==
    /\ []ParserAdvances
    /\ [][(pc = "lines" /\ pc' = "lines") => ret2'.i > ret2.i]_vars
    /\ <>(pc = "extracted")

\* the Tangerine loop after a date line for which the parser found no
\* amounts in its window: the index went from 3 to 4 and nothing was recorded
C28_NoMatchAdvanced ==
    /\ pc = "lines" /\ call.fn = "TangerineProcessor"
    /\ ret2.i = 4 /\ ret2.in_transaction_section
    /\ Invoke("_is_tangerine_transaction", <<Invoke("Strip", <<document.pages[ret][3]>>)>>)
    /\ Invoke("_parse_tangerine_multiline_transaction", <<document.pages[ret], 3, ret>>).tx = <<>>
    /\ extracted = <<>>

\* a page that no extractor reads anything from
NeutralPage == <<<<"C","o","n","t","i","n","u","e","d">>>>
\* the document with every page but page p replaced by such a page
PageAlone(pdf, p) ==
    [pdf EXCEPT !.pages = [q \in 1..Len(pdf.pages) |->
                              IF q = p THEN pdf.pages[q] ELSE NeutralPage]]
OfPage(transactions, p) == SelectSeq(transactions, LAMBDA tx : tx.page = p)
PagedExtract(fn, pdf) ==
    CASE fn = "TDProcessor" -> Invoke("TD_extract_transactions", <<pdf>>)
      [] fn = "RBCBankProcessor" -> Invoke("RBCBank_extract_transactions", <<pdf>>)
      [] fn = "CIBCProcessor" -> Invoke("CIBC_extract_transactions", <<pdf>>)
      [] fn = "ScotiaBankProcessor" -> Invoke("ScotiaBank_extract_transactions", <<pdf>>)

\* the first date of a line is one of the extractor: "3 Mar" for RBC Bank,
\* "Mar 3" for CIBC
FoundDate(fn, line) ==
    LET m == IF fn = "RBCBankProcessor" THEN Invoke("Search", <<<<Rep(D, 1, 2), Ws1, A3>>, Invoke("Strip", <<line>>)>>)
             ELSE Invoke("Search", <<<<A3, Ws1, Rep(D, 1, 2)>>, Invoke("Strip", <<line>>)>>)
    IN  /\ m # <<>>
        /\ MonthNum(Invoke("Lower", <<Group(m, IF fn = "RBCBankProcessor" THEN 3 ELSE 1, Invoke("Strip", <<line>>))>>)) # 0
\* the page without the lines before its first dated line, its heading kept
FromFirstDate(fn, lines) ==
    LET dated == {i \in 1..Len(lines) : FoundDate(fn, lines[i])}
        first == IF dated = {} THEN Len(lines) + 1 ELSE Lowest(dated)
    IN  SelectSeq(SubSeq(lines, 1, first - 1),
                  LAMBDA l : Contains(l, IF fn = "RBCBankProcessor"
                                         THEN <<"D","e","t","a","i","l","s"," ","o","f"," ","y","o","u","r"," ","a","c","c","o","u","n","t"," ","a","c","t","i","v","i","t","y">>
                                         ELSE <<"T","r","a","n","s","a","c","t","i","o","n"," ","d","e","t","a","i","l","s">>))
        \o SubSeq(lines, first, Len(lines))

\* C29: parse state never crosses a page boundary: the records of every page
\* are those the extractor gives when the other pages say nothing, so no
\* record takes its section (TD) or its date (RBC, CIBC, Scotiabank) from an
\* earlier page; and in RBC and CIBC the lines before the first dated line of
\* a page yield no record: the records are those of the pages without them.
C29_PageStateCleared ==
    (Extracted /\ call.fn \in PagedExtractors /\ Len(document.pages) > 1) =>
        /\ \A p \in 1..Len(document.pages) :
              OfPage(extracted, p) = PagedExtract(call.fn, PageAlone(document, p))
        /\ call.fn \in CarryForward =>
              extracted = PagedExtract(call.fn,
                  [document EXCEPT !.pages = [q \in 1..Len(document.pages) |->
                      FromFirstDate(call.fn, document.pages[q])]])

\* RBC Bank read a page that ends with a line dated 3 Mar and then a page
\* with a dateless line, a line dated 10 Mar and a dateless line: the first
\* line of the second page gave no record
C29_SecondPageSeen ==
    /\ Extracted /\ call.fn = "RBCBankProcessor"
    /\ document.pages =
         << <<<<"D","e","t","a","i","l","s"," ","o","f"," ","y","o","u","r"," ","a","c","c","o","u","n","t"," ","a","c","t","i","v","i","t","y">>, <<"3"," ","M","a","r"," "," ","D","E","P","O","S","I","T"," "," ","1","0","0",".","0","0">>>>,
            <<<<"D","e","t","a","i","l","s"," ","o","f"," ","y","o","u","r"," ","a","c","c","o","u","n","t"," ","a","c","t","i","v","i","t","y">>, <<" "," ","W","I","T","H","D","R","A","W","A","L"," "," ","2","0",".","0","0">>,
              <<"1","0"," ","M","a","r"," "," ","C","O","F","F","E","E"," "," ","4",".","5","0">>, <<" "," ","W","I","T","H","D","R","A","W","A","L"," "," ","2","0",".","0","0">>>> >>
    /\ Len(extracted) = 3
    /\ [k \in 1..3 |-> extracted[k].date] = <<<<"0","3","-","0","3">>, <<"0","3","-","1","0">>, <<"0","3","-","1","0">>>>
    /\ [k \in 1..3 |-> extracted[k].page] = <<1, 2, 2>>

\* the dates of a list of records, in order
DatesOf(transactions) == [k \in 1..Len(transactions) |-> transactions[k].date]

\* C30: the date of a record of the EQ Bank extractor is determined by the
\* text of its line alone: a run on the same statement at another processing
\* time gives the same dates, for every month and day including Feb 29.
C30_DateFromLineAlone ==
    (Extracted /\ call.fn = "EQBankProcessor") =>
        \A today \in Clocks :
            DatesOf(Invoke("EQ_extract_transactions", <<document, today>>)) = DatesOf(extracted)

==========================================================================
